---- MODULE Spec2Model ----
(***************************************************************************)
(* Catalog Matching & Order Validation Engine: the sliding-window          *)
(* RateLimiter, the TTL CacheService, the ProductCatalogService with its   *)
(* HTTP validate route, and the EmailProcessor with its GeminiClient.      *)
(* Time is in milliseconds, as Date.now().                                 *)
(***************************************************************************)
EXTENDS Integers, Sequences, FiniteSets, TLC

VARIABLES
    now,        \* Date.now()
    requests,   \* RateLimiter.requests : Map<string, RequestRecord[]>
    calls,      \* history of checkLimit calls per identifier (observation)
    wpc,        \* position of each waitForSlot caller
    wid,        \* identifier each waitForSlot caller passed
    wake,       \* time at which a sleeping waitForSlot caller's timer fires
    slept,      \* what each waitForSlot caller last slept on (observation)
    probe,      \* the last getRemainingRequests / getResetTime call (observation)
    cache,      \* CacheService.cache : Map<string, CacheEntry>
    stats,      \* CacheService.stats
    nextSweep,  \* time of the next setInterval tick of the cache (0: stopped)
    cacheOps,   \* number of CacheService calls made so far (observation)
    written,    \* per key, the last set not followed by a delete (observation)
    lastGet,    \* the last CacheService.get call and its result (observation)
    pending,    \* position and result of each caller of CacheService.getOrSet
    proc,       \* the server process: "up", "closing" or "exited"
    held,       \* the array a caller of getAllProducts was handed, as references
    remembered, \* the validateOrder outcomes a caller has kept (observation)
    cancelled,  \* the waitForSlot callers whose own caller has given up
    epc,        \* position of each processEmail request
    ereq,       \* email_content of each processEmail request
    eret,       \* what each processEmail request returned (observation)
    extCalls,   \* the times of the calls made to the external model (observation)
    fileExists, \* fs.existsSync(csvPath)
    file,       \* the lines of the catalog file
    loaded,     \* ProductCatalogService.loaded
    products,   \* ProductCatalogService.products
    categories, \* ProductCatalogService.categories, in insertion order
    parseCount, \* executions of loadCatalog that read and parsed the file (observation)
    lpc,        \* position of each caller of loadCatalog / ensureLoaded
    observed,   \* the catalog each caller read once its call had completed
    outcome,    \* the last validateOrder call and its result (observation)
    response,   \* the last response of POST /api/products/validate (observation)
    query       \* the last read operation of the catalog and its result (observation)

rlVars == <<requests, calls, wpc, wid, wake, slept, probe>>
cacheVars == <<cache, stats, nextSweep, cacheOps, written, lastGet>>
\* The callers of getOrSet, the process the services live in, and the caller
\* of getAllProducts.
hostVars == <<pending, proc, held>>
\* The requests to processEmail and the calls they make to the external model.
emailVars == <<epc, ereq, eret, extCalls>>
\* What the callers of the services hold.
clientVars == <<remembered, cancelled, emailVars>>
catalogVars == <<fileExists, file, loaded, products, categories, parseCount,
                 lpc, observed, outcome, response, query>>

\* What each of the three services leaves alone.
outsideRL == <<cacheVars, catalogVars, hostVars, clientVars>>
outsideCache == <<rlVars, catalogVars, proc, held, clientVars>>
outsideCatalog == <<now, rlVars, cacheVars, hostVars, clientVars>>

vars == <<now, rlVars, cacheVars, catalogVars, hostVars, clientVars>>

(***************************************************************************)
(* Bounds of the model                                                     *)
(***************************************************************************)
MaxRequests == 2        \* constructor argument maxRequests
WindowMs == 1500        \* constructor argument windowMs
MaxTime == 2000         \* the clock stops here
MaxCalls == 5           \* checkLimit calls observed in one run

TickSteps == {500}
Identifiers == {"default", "ip1"}
\* The optional argument identifier: << >> when omitted, <<id>> when given.
IdentifierArgs == {<< >>, <<"default">>, <<"ip1">>}
Waiters == {"w1", "w2"}

(***************************************************************************)
(* Generic helpers                                                         *)
(***************************************************************************)
Min(a, b) == IF a <= b THEN a ELSE b
Max(a, b) == IF a >= b THEN a ELSE b

RECURSIVE SumCount(_)
\* requestHistory.reduce((sum, req) => sum + req.count, 0)
SumCount(h) == IF h = <<>> THEN 0 ELSE Head(h).count + SumCount(Tail(h))

(***************************************************************************)
(* RateLimiter                                                             *)
(***************************************************************************)
\* this.requests.get(identifier) || []
GetHistory(reqs, id) == IF id \in DOMAIN reqs THEN reqs[id] ELSE <<>>

\* this.requests.set(identifier, history)
MapSet(m, k, v) == [x \in (DOMAIN m) \cup {k} |-> IF x = k THEN v ELSE m[x]]

\* this.requests.delete(identifier)
MapDelete(m, k) == [x \in (DOMAIN m) \ {k} |-> m[x]]

\* identifier: string = 'default'
IdentifierOr(arg) == IF arg = << >> THEN "default" ELSE arg[1]

InWindowMutant(req, t) == req.timestamp >= t - WindowMs
\* req => req.timestamp > windowStart, windowStart = now - this.windowMs
InWindow(req, t) == req.timestamp > t - WindowMs

\* requestHistory.filter(req => req.timestamp > windowStart)
FilterWindow(h, t) == SelectSeq(h, LAMBDA req : InWindow(req, t))

LimitExceededMutant(count) == count > MaxRequests
\* currentCount >= this.maxRequests
LimitExceeded(count) == count >= MaxRequests

\* The result of checkLimit(identifier) at time t: the value returned and the
\* map afterwards.
CheckLimitResultMutant(reqs, id, t) ==
    LET requestHistory == FilterWindow(GetHistory(reqs, id), t)
        recorded == MapSet(reqs, id,
                        Append(requestHistory, [timestamp |-> t, count |-> 1]))
    IN  [ok |-> ~LimitExceeded(SumCount(requestHistory)), requests |-> recorded]
CheckLimitResultShared(reqs, id, t) ==
    LET requestHistory == FilterWindow(GetHistory(reqs, "default"), t)
        currentCount == SumCount(requestHistory)
    IN  IF LimitExceeded(currentCount)
        THEN [ok |-> FALSE, requests |-> reqs]
        ELSE [ok |-> TRUE,
              requests |-> MapSet(reqs, "default",
                  Append(requestHistory, [timestamp |-> t, count |-> 1]))]
CheckLimitResultUnfiltered(reqs, id, t) ==
    LET requestHistory == FilterWindow(GetHistory(reqs, id), t)
        currentCount == SumCount(requestHistory)
    IN  IF LimitExceeded(currentCount)
        THEN [ok |-> FALSE, requests |-> reqs]
        ELSE [ok |-> TRUE,
              requests |-> MapSet(reqs, id,
                  Append(GetHistory(reqs, id), [timestamp |-> t, count |-> 1]))]
CheckLimitResultNoRecord(reqs, id, t) ==
    LET requestHistory == FilterWindow(GetHistory(reqs, id), t)
    IN  [ok |-> ~LimitExceeded(SumCount(requestHistory)), requests |-> reqs]
CheckLimitResult(reqs, id, t) ==
    LET requestHistory == FilterWindow(GetHistory(reqs, id), t)
        currentCount == SumCount(requestHistory)
    IN  IF LimitExceeded(currentCount)
        THEN [ok |-> FALSE, requests |-> reqs]
        ELSE [ok |-> TRUE,
              requests |-> MapSet(reqs, id,
                  Append(requestHistory, [timestamp |-> t, count |-> 1]))]

\* What a checkLimit call leaves in the observation log.
CallRecord(reqs, id, t, r) ==
    [t |-> t, ok |-> r.ok,
     before |-> GetHistory(reqs, id),
     after |-> GetHistory(r.requests, id)]

RECURSIVE SumLen(_, _)
SumLen(f, S) ==
    IF S = {} THEN 0
    ELSE LET x == CHOOSE y \in S : TRUE IN Len(f[x]) + SumLen(f, S \ {x})

\* Number of checkLimit calls observed so far (bounds the observation log).
TotalCalls == SumLen(calls, Identifiers)

\* A direct caller: await rateLimiter.checkLimit(id).  The body holds no
\* await, so it runs to completion in one turn of the event loop.
checkLimit(id) ==
    /\ TotalCalls < MaxCalls
    /\ LET r == CheckLimitResult(requests, id, now)
       IN  /\ requests' = r.requests
           /\ calls' = [calls EXCEPT ![id] = Append(@, CallRecord(requests, id, now, r))]
    /\ UNCHANGED <<now, wpc, wid, wake, slept, probe, outsideRL>>

\* waitForSlot(id) is entered: the loop condition is about to be evaluated.
waitForSlotEnter(w, id) ==
    /\ wpc[w] = "idle"
    /\ wpc' = [wpc EXCEPT ![w] = "check"]
    /\ wid' = [wid EXCEPT ![w] = id]
    /\ slept' = [slept EXCEPT ![w] = << >>]
    /\ UNCHANGED <<now, requests, calls, wake, probe, outsideRL>>

\* while (!(await this.checkLimit(identifier))): the call itself.  The await
\* suspends the caller; what it does with the answer is the next step.
waitForSlotCheck(w) ==
    /\ wpc[w] = "check"
    /\ TotalCalls < MaxCalls
    /\ LET r == CheckLimitResult(requests, wid[w], now)
       IN  /\ requests' = r.requests
           /\ calls' = [calls EXCEPT ![wid[w]] =
                            Append(@, CallRecord(requests, wid[w], now, r))]
           /\ wpc' = [wpc EXCEPT ![w] = IF r.ok THEN "idle" ELSE "denied"]
           /\ wid' = [wid EXCEPT ![w] = IF r.ok THEN "default" ELSE @]
    /\ UNCHANGED <<now, wake, slept, probe, outsideRL>>

MaxSleepMs == 1000

SleepTimeUncapped(reqs, id, t) ==
    LET requestHistory == GetHistory(reqs, id)
    IN  IF Len(requestHistory) > 0
        THEN Max(0, (requestHistory[1].timestamp + WindowMs) - t)
        ELSE MaxSleepMs
\* The delay handed to setTimeout after a denied check.
SleepTime(reqs, id, t) ==
    LET requestHistory == GetHistory(reqs, id)
    IN  IF Len(requestHistory) > 0
        THEN Min(Max(0, (requestHistory[1].timestamp + WindowMs) - t), MaxSleepMs)
        ELSE MaxSleepMs

\* (oldestRequest.timestamp + this.windowMs) - Date.now(), before Math.max and
\* Math.min; 0 when the history holds no record and nothing is computed.
RemainingWait(reqs, id, t) ==
    LET requestHistory == GetHistory(reqs, id)
    IN  IF Len(requestHistory) > 0
        THEN (requestHistory[1].timestamp + WindowMs) - t
        ELSE 0

\* The loop body after a denied check: read the history, start the timer.
waitForSlotSleep(w) ==
    /\ wpc[w] = "denied"
    /\ wake' = [wake EXCEPT ![w] = now + SleepTime(requests, wid[w], now)]
    /\ wpc' = [wpc EXCEPT ![w] = "sleep"]
    /\ slept' = [slept EXCEPT ![w] =
                    <<[left |-> RemainingWait(requests, wid[w], now),
                       seen |-> Len(calls[wid[w]])]>>]
    /\ UNCHANGED <<now, requests, calls, wid, probe, outsideRL>>

\* The timer fires; the loop condition is evaluated again.
waitForSlotWake(w) ==
    /\ wpc[w] = "sleep"
    /\ now >= wake[w]
    /\ wpc' = [wpc EXCEPT ![w] = "check"]
    /\ wake' = [wake EXCEPT ![w] = 0]
    /\ UNCHANGED <<now, requests, calls, wid, slept, probe, outsideRL>>

CleanupHistoryDropsAll(h, t) == SelectSeq(h, LAMBDA req : req.timestamp > t)
\* The history cleanup() leaves for one identifier.
CleanupHistory(h, t) == FilterWindow(h, t)

\* cleanup(): drop every record outside the window, and every identifier
\* left without records.
cleanup ==
    /\ requests' =
         LET kept == {id \in DOMAIN requests :
                          Len(CleanupHistory(requests[id], now)) # 0}
         IN  [id \in kept |-> CleanupHistory(requests[id], now)]
    /\ requests' # requests
    /\ UNCHANGED <<now, calls, wpc, wid, wake, slept, probe, outsideRL>>

\* getRemainingRequests(identifier) at time t
GetRemainingRequests(reqs, id, t) ==
    LET requestHistory == FilterWindow(GetHistory(reqs, id), t)
        currentCount == SumCount(requestHistory)
    IN  Max(0, MaxRequests - currentCount)

\* getResetTime(identifier): computed from the stored history as it is.
GetResetTime(reqs, id) ==
    LET requestHistory == GetHistory(reqs, id)
    IN  IF Len(requestHistory) = 0
        THEN 0
        ELSE requestHistory[1].timestamp + WindowMs

\* A caller reads getRemainingRequests(id).
getRemainingRequests(id) ==
    /\ probe' = [op |-> "getRemainingRequests", id |-> id,
                 value |-> GetRemainingRequests(requests, id, now)]
    /\ UNCHANGED <<now, requests, calls, wpc, wid, wake, slept, outsideRL>>

\* A caller reads getResetTime(id).
getResetTime(id) ==
    /\ probe' = [op |-> "getResetTime", id |-> id,
                 value |-> GetResetTime(requests, id)]
    /\ UNCHANGED <<now, requests, calls, wpc, wid, wake, slept, outsideRL>>


(***************************************************************************)
(* CacheService                                                            *)
(***************************************************************************)
DefaultTTLMs == 200         \* constructor argument defaultTTLMs
MaxCacheTime == 150         \* the clock is followed this long after 0 and after a sweep tick
MaxCacheOps == 3            \* cache operations in one run

SweepIntervalMs == 60000
CacheTickSteps == {50, SweepIntervalMs}
\* The sweep intervals the clock runs through: the first and the second.
CachePhases == {0, 1}
Keys == {"k1", "k2"}
Values == {"v1", "v2"}
Null == "null"
\* What a factory passed to getOrSet may produce: a value, or null.
FactoryResults == {"v1", Null}
\* The ttlMs a caller of getOrSet passes.
GetOrSetTtlArgs == {<< >>, <<100>>}
\* The callers of getOrSet.
GetOrSetCallers == {"g1"}
\* The callers whose getOrSet calls overlap.
OverlappingCallers == {"g1", "g2"}
\* A caller of getOrSet that is in no call.
NoCall == [pc |-> "idle", key |-> "k1", ttl |-> << >>, ret |-> << >>]
\* The optional argument ttlMs: << >> when omitted, <<n>> when given.
TtlArgs == {<< >>, <<0>>, <<100>>}

\* ttlMs || this.defaultTTL: undefined and 0 are both falsy.
EffectiveTTL(ttlMs) ==
    IF ttlMs = << >> \/ ttlMs[1] = 0 THEN DefaultTTLMs ELSE ttlMs[1]

NewEntryDefaultOnly(value, ttlMs, t) ==
    [value |-> value, expiry |-> t + DefaultTTLMs, created |-> t]
\* The entry set(key, value, ttlMs) stores at time t.
NewEntry(value, ttlMs, t) ==
    [value |-> value, expiry |-> t + EffectiveTTL(ttlMs), created |-> t]

\* Date.now() > entry.expiry
Expired(entry, t) == t > entry.expiry

\* set(key, value, ttlMs)
CacheSet(k, v, ttlMs) ==
    /\ cacheOps < MaxCacheOps
    /\ cacheOps' = cacheOps + 1
    /\ cache' = MapSet(cache, k, NewEntry(v, ttlMs, now))
    /\ stats' = [stats EXCEPT !.sets = @ + 1,
                              !.size = Cardinality(DOMAIN cache')]
    /\ written' = MapSet(written, k, [t0 |-> now, value |-> v, ttl |-> ttlMs])
    /\ UNCHANGED <<now, nextSweep, lastGet, pending, outsideCache>>

CacheGetResultMutant(c, st, k, t) ==
    IF k \notin DOMAIN c
    THEN [value |-> Null, cache |-> c, stats |-> [st EXCEPT !.misses = @ + 1]]
    ELSE IF Expired(c[k], t)
    THEN [value |-> Null, cache |-> c, stats |-> [st EXCEPT !.misses = @ + 1]]
    ELSE [value |-> c[k].value, cache |-> c,
          stats |-> [st EXCEPT !.hits = @ + 1]]
\* get(key) at time t: the value returned, the map and the counters afterwards.
CacheGetResult(c, st, k, t) ==
    IF k \notin DOMAIN c
    THEN [value |-> Null, cache |-> c, stats |-> [st EXCEPT !.misses = @ + 1]]
    ELSE IF Expired(c[k], t)
    THEN LET c2 == MapDelete(c, k)
         IN  [value |-> Null, cache |-> c2,
              stats |-> [st EXCEPT !.deletes = @ + 1, !.misses = @ + 1,
                                   !.size = Cardinality(DOMAIN c2)]]
    ELSE [value |-> c[k].value, cache |-> c,
          stats |-> [st EXCEPT !.hits = @ + 1]]

\* get(key)
CacheGet(k) ==
    /\ cacheOps < MaxCacheOps
    /\ cacheOps' = cacheOps + 1
    /\ LET r == CacheGetResult(cache, stats, k, now)
       IN  /\ cache' = r.cache
           /\ stats' = r.stats
           /\ lastGet' = [called |-> TRUE, key |-> k, t |-> now,
                          value |-> r.value,
                          stored |-> k \in DOMAIN r.cache,
                          set |-> IF k \in DOMAIN written
                                  THEN <<written[k]>> ELSE << >>]
    /\ UNCHANGED <<now, nextSweep, written, pending, outsideCache>>

\* has(key)
CacheHas(k) ==
    /\ cacheOps < MaxCacheOps
    /\ cacheOps' = cacheOps + 1
    /\ IF k \in DOMAIN cache /\ Expired(cache[k], now)
       THEN /\ cache' = MapDelete(cache, k)
            /\ stats' = [stats EXCEPT !.deletes = @ + 1,
                                      !.size = Cardinality(DOMAIN cache')]
       ELSE UNCHANGED <<cache, stats>>
    /\ UNCHANGED <<now, nextSweep, written, lastGet, pending, outsideCache>>

\* delete(key)
CacheDelete(k) ==
    /\ cacheOps < MaxCacheOps
    /\ cacheOps' = cacheOps + 1
    /\ cache' = MapDelete(cache, k)
    /\ IF k \in DOMAIN cache
       THEN stats' = [stats EXCEPT !.deletes = @ + 1,
                                   !.size = Cardinality(DOMAIN cache')]
       ELSE stats' = stats
    /\ written' = MapDelete(written, k)
    /\ UNCHANGED <<now, nextSweep, lastGet, pending, outsideCache>>

CacheClearKeepsSize ==
    /\ cacheOps < MaxCacheOps
    /\ cacheOps' = cacheOps + 1
    /\ cache' = << >>
    /\ written' = << >>
    /\ UNCHANGED <<now, stats, nextSweep, lastGet, pending, outsideCache>>
\* clear()
CacheClear ==
    /\ cacheOps < MaxCacheOps
    /\ cacheOps' = cacheOps + 1
    /\ cache' = << >>
    /\ stats' = [stats EXCEPT !.size = 0]
    /\ written' = << >>
    /\ UNCHANGED <<now, nextSweep, lastGet, pending, outsideCache>>

CacheCleanupKeepsAll ==
    /\ nextSweep # 0
    /\ now >= nextSweep
    /\ nextSweep' = nextSweep + SweepIntervalMs
    /\ UNCHANGED <<now, cache, stats, cacheOps, written, lastGet, pending, outsideCache>>
\* The setInterval callback: cleanup() removes every expired entry.
CacheCleanup ==
    /\ nextSweep # 0
    /\ now >= nextSweep
    /\ nextSweep' = nextSweep + SweepIntervalMs
    /\ LET gone == {k \in DOMAIN cache : Expired(cache[k], now)}
       IN  /\ cache' = [k \in (DOMAIN cache) \ gone |-> cache[k]]
           /\ stats' = IF Cardinality(gone) > 0
                       THEN [stats EXCEPT !.deletes = @ + Cardinality(gone),
                                          !.size = Cardinality(DOMAIN cache')]
                       ELSE stats
    /\ UNCHANGED <<now, cacheOps, written, lastGet, pending, outsideCache>>

\* getOrSet(key, factory, ttlMs) up to its await: the cached value is returned
\* when get(key) is not null, and factory() is invoked otherwise.
getOrSetStart(c, k, ttlMs) ==
    /\ pending[c].pc = "idle"
    /\ cacheOps < MaxCacheOps
    /\ cacheOps' = cacheOps + 1
    /\ LET r == CacheGetResult(cache, stats, k, now)
       IN  /\ cache' = r.cache
           /\ stats' = r.stats
           /\ pending' = [pending EXCEPT ![c] =
                  IF r.value # Null
                  THEN [pc |-> "idle", key |-> k, ttl |-> ttlMs, ret |-> <<r.value>>]
                  ELSE [pc |-> "factory", key |-> k, ttl |-> ttlMs, ret |-> << >>]]
    /\ UNCHANGED <<now, nextSweep, written, lastGet, outsideCache>>

getOrSetResolveFirstWins(c, v) ==
    /\ pending[c].pc = "factory"
    /\ LET k == pending[c].key
           ttlMs == pending[c].ttl
       IN  IF k \in DOMAIN cache
           THEN UNCHANGED <<cache, stats, written>>
           ELSE /\ cache' = MapSet(cache, k, NewEntry(v, ttlMs, now))
                /\ stats' = [stats EXCEPT !.sets = @ + 1,
                                          !.size = Cardinality(DOMAIN cache')]
                /\ written' = MapSet(written, k, [t0 |-> now, value |-> v, ttl |-> ttlMs])
    /\ pending' = [pending EXCEPT ![c].pc = "idle", ![c].ret = <<v>>]
    /\ UNCHANGED <<now, nextSweep, cacheOps, lastGet, outsideCache>>
\* The factory's promise resolves with v: getOrSet stores v and returns it.
getOrSetResolve(c, v) ==
    /\ pending[c].pc = "factory"
    /\ LET k == pending[c].key
           ttlMs == pending[c].ttl
       IN  /\ cache' = MapSet(cache, k, NewEntry(v, ttlMs, now))
           /\ stats' = [stats EXCEPT !.sets = @ + 1,
                                     !.size = Cardinality(DOMAIN cache')]
           /\ written' = MapSet(written, k, [t0 |-> now, value |-> v, ttl |-> ttlMs])
    /\ pending' = [pending EXCEPT ![c].pc = "idle", ![c].ret = <<v>>]
    /\ UNCHANGED <<now, nextSweep, cacheOps, lastGet, outsideCache>>

\* The factory throws or its promise rejects: getOrSet rejects, nothing is stored.
getOrSetReject(c) ==
    /\ pending[c].pc = "factory"
    /\ pending' = [pending EXCEPT ![c].pc = "idle"]
    /\ UNCHANGED <<now, cacheVars, outsideCache>>

CacheDestroyResetsStats ==
    /\ cacheOps < MaxCacheOps
    /\ cacheOps' = cacheOps + 1
    /\ nextSweep' = 0
    /\ cache' = << >>
    /\ stats' = [hits |-> 0, misses |-> 0, sets |-> 0, deletes |-> 0, size |-> 0]
    /\ written' = << >>
    /\ UNCHANGED <<now, lastGet, pending, outsideCache>>
\* destroy(): the interval is cleared if there is one, then clear().
CacheDestroy ==
    /\ cacheOps < MaxCacheOps
    /\ cacheOps' = cacheOps + 1
    /\ nextSweep' = 0
    /\ cache' = << >>
    /\ stats' = [stats EXCEPT !.size = 0]
    /\ written' = << >>
    /\ UNCHANGED <<now, lastGet, pending, outsideCache>>

\* process.on('SIGTERM'): server.close(callback) stops accepting connections.
sigterm ==
    /\ proc # "exited"
    /\ proc' = "closing"
    /\ UNCHANGED <<now, rlVars, cacheVars, catalogVars, pending, held, clientVars>>

\* process.on('SIGINT'): the same handler body.
sigint ==
    /\ proc # "exited"
    /\ proc' = "closing"
    /\ UNCHANGED <<now, rlVars, cacheVars, catalogVars, pending, held, clientVars>>

\* The callback of server.close: process.exit(0).
serverClosed ==
    /\ proc = "closing"
    /\ proc' = "exited"
    /\ UNCHANGED <<now, rlVars, cacheVars, catalogVars, pending, held, clientVars>>

\* Date.now() advances.
CacheTick ==
    /\ \E d \in CacheTickSteps :
         /\ (now + d) % SweepIntervalMs <= MaxCacheTime
         /\ (now + d) \div SweepIntervalMs \in CachePhases
         /\ now' = now + d
    /\ UNCHANGED <<cacheVars, pending, outsideCache>>

\* What a processEmail request has returned: nothing yet.
NoReturn == [kind |-> "none", content |-> << >>, cached |-> FALSE]

\* No caller holds anything, no request to processEmail has been made.
InitClientState ==
    /\ remembered = << >>
    /\ cancelled = [w \in Waiters |-> FALSE]
    /\ epc = [w \in Waiters |-> "idle"]
    /\ ereq = [w \in Waiters |-> << >>]
    /\ eret = [w \in Waiters |-> NoReturn]
    /\ extCalls = << >>

\* The process is up and no getOrSet call is under way.
InitHostState ==
    /\ pending = [c \in OverlappingCallers |-> NoCall]
    /\ proc = "up"
    /\ held = [taken |-> FALSE, refs |-> << >>]
    /\ InitClientState

\* new CacheService(defaultTTLMs), constructed at time 0.
InitCacheState ==
    /\ InitHostState
    /\ cache = << >>
    /\ stats = [hits |-> 0, misses |-> 0, sets |-> 0, deletes |-> 0, size |-> 0]
    /\ cacheOps = 0
    /\ nextSweep = SweepIntervalMs
    /\ written = << >>
    /\ lastGet = [called |-> FALSE, key |-> "k1", t |-> 0, value |-> Null,
                  stored |-> FALSE, set |-> << >>]

(***************************************************************************)
(* Strings: a string is the sequence of its characters.                    *)
(***************************************************************************)
\* One character of String.prototype.toLowerCase().
LowerChar(ch) ==
    CASE ch = "A" -> "a"
      [] ch = "B" -> "b"
      [] ch = "D" -> "d"
      [] OTHER -> ch

\* s.toLowerCase()
ToLowerCase(s) == [i \in 1..Len(s) |-> LowerChar(s[i])]

\* hay.includes(needle)
Includes(hay, needle) ==
    \E i \in 0..(Len(hay) - Len(needle)) :
        SubSeq(hay, i + 1, i + Len(needle)) = needle

RECURSIVE TrimStart(_)
TrimStart(s) == IF s # << >> /\ Head(s) = " " THEN TrimStart(Tail(s)) ELSE s

RECURSIVE TrimEnd(_)
TrimEnd(s) ==
    IF s # << >> /\ s[Len(s)] = " " THEN TrimEnd(SubSeq(s, 1, Len(s) - 1)) ELSE s

\* s.trim()
Trim(s) == TrimEnd(TrimStart(s))

(***************************************************************************)
(* Numbers: a JavaScript number is <<n>>, and NaN is << >>.                *)
(***************************************************************************)
NaN == << >>
Num(n) == <<n>>

Digits == {"0", "1", "2", "3", "4", "5", "6", "7", "8", "9"}

DigitValue(ch) ==
    CASE ch = "0" -> 0 [] ch = "1" -> 1 [] ch = "2" -> 2 [] ch = "3" -> 3
      [] ch = "4" -> 4 [] ch = "5" -> 5 [] ch = "6" -> 6 [] ch = "7" -> 7
      [] ch = "8" -> 8 [] ch = "9" -> 9

RECURSIVE DigitPrefix(_, _)
\* The value of the longest prefix of digits of s, read after the digits acc.
DigitPrefix(s, acc) ==
    IF s # << >> /\ Head(s) \in Digits
    THEN DigitPrefix(Tail(s), acc \o <<Head(s)>>)
    ELSE acc

RECURSIVE DigitsValue(_, _)
DigitsValue(ds, v) ==
    IF ds = << >> THEN v ELSE DigitsValue(Tail(ds), 10 * v + DigitValue(Head(ds)))

\* parseInt(s): leading blanks are skipped, a sign is read, then the longest
\* prefix of digits; NaN when there is no digit.
ParseInt(s) ==
    LET t == TrimStart(s)
        neg == t # << >> /\ Head(t) = "-"
        body == IF t # << >> /\ Head(t) \in {"-", "+"} THEN Tail(t) ELSE t
        ds == DigitPrefix(body, << >>)
    IN  IF ds = << >> THEN NaN
        ELSE Num(IF neg THEN 0 - DigitsValue(ds, 0) ELSE DigitsValue(ds, 0))

\* x || d for a number x: NaN and 0 are falsy.
NumberOr(x, d) == IF x = NaN \/ x[1] = 0 THEN d ELSE x[1]

\* a > b and a < b on numbers: every comparison with NaN is false.
NumGreater(a, b) == a # NaN /\ b # NaN /\ a[1] > b[1]
NumLess(a, b) == a # NaN /\ b # NaN /\ a[1] < b[1]

(***************************************************************************)
(* ProductCatalogService: parsing and loading                              *)
(***************************************************************************)
RECURSIVE ParseCSVFrom(_, _, _, _)
\* The loop of parseCSVLine over the rest of the line.
ParseCSVFrom(rest, current, inQuotes, values) ==
    IF rest = << >> THEN Append(values, Trim(current))
    ELSE LET char == Head(rest)
         IN  IF char = "\""
             THEN ParseCSVFrom(Tail(rest), current, ~inQuotes, values)
             ELSE IF char = "," /\ ~inQuotes
             THEN ParseCSVFrom(Tail(rest), << >>, inQuotes,
                               Append(values, Trim(current)))
             ELSE ParseCSVFrom(Tail(rest), Append(current, char), inQuotes, values)

\* parseCSVLine(line)
ParseCSVLine(line) == ParseCSVFrom(line, << >>, FALSE, << >>)

RECURSIVE BeforeDash(_)
\* code.split('-')[0]
BeforeDash(s) ==
    IF s = << >> \/ Head(s) = "-" THEN << >> ELSE <<Head(s)>> \o BeforeDash(Tail(s))

\* Names of properties every object literal inherits from Object.prototype.
InheritedKeys ==
    { <<"c", "o", "n", "s", "t", "r", "u", "c", "t", "o", "r">>,
      <<"t", "o", "S", "t", "r", "i", "n", "g">> }
\* What a lookup of such a name gives: the inherited function, a truthy value.
InheritedFunction == "[Function]"

\* getCategoryName(code): categoryMap[code] || 'Unknown'.  categoryMap is an
\* object literal, so the lookup also finds what the object inherits.
GetCategoryName(code) ==
    CASE code = <<"D", "S", "K">> -> "Desks"
      [] code = <<"C", "H", "R">> -> "Chairs"
      [] code = <<"D", "T", "B">> -> "Dining Tables"
      [] code = <<"D", "C", "H">> -> "Dining Chairs"
      [] code = <<"B", "S", "F">> -> "Bookshelves"
      [] code = <<"S", "F", "A">> -> "Sofas"
      [] code = <<"C", "F", "T">> -> "Coffee Tables"
      [] code = <<"T", "V", "S">> -> "TV Stands"
      [] code \in InheritedKeys -> InheritedFunction
      [] OTHER -> "Unknown"

\* description.replace(/^"/, '').replace(/"$/, '')
StripQuotes(s) ==
    LET a == IF s # << >> /\ Head(s) = "\"" THEN Tail(s) ELSE s
    IN  IF a # << >> /\ a[Len(a)] = "\"" THEN SubSeq(a, 1, Len(a) - 1) ELSE a

\* parseProduct(values).  parseFloat is read as parseInt (the prices of the
\* data have no fraction); attributes.tags is left out.
ParseProduct(values) ==
    [product_code |-> values[1],
     product_name |-> values[2],
     price |-> NumberOr(ParseInt(values[3]), 0),
     available_in_stock |-> NumberOr(ParseInt(values[4]), 0),
     min_order_quantity |-> NumberOr(ParseInt(values[5]), 1),
     description |-> StripQuotes(values[6]),
     category |-> [code |-> BeforeDash(values[1]),
                   name |-> GetCategoryName(BeforeDash(values[1]))]]

\* this.categories.has(code)
HasCategory(cats, code) == \E i \in 1..Len(cats) : cats[i].code = code

RECURSIVE LoadLines(_, _, _, _)
\* The parse loop of loadCatalog from line i on: the products and categories
\* it leaves.
LoadLines(lines, i, prods, cats) ==
    IF i > Len(lines) THEN [products |-> prods, categories |-> cats]
    ELSE LET line == Trim(lines[i])
             values == ParseCSVLine(line)
         IN  IF line = << >> \/ Len(values) < 6
             THEN LoadLines(lines, i + 1, prods, cats)
             ELSE LET product == ParseProduct(values)
                  IN  LoadLines(lines, i + 1, Append(prods, product),
                                IF HasCategory(cats, product.category.code)
                                THEN cats
                                ELSE Append(cats, product.category))

LoadCatalogResultMutant(svc, exists, lines) ==
    IF ~exists THEN [threw |-> TRUE, parsed |-> FALSE, svc |-> svc]
    ELSE LET r == LoadLines(lines, 2, svc.products, svc.categories)
         IN  [threw |-> FALSE, parsed |-> TRUE,
              svc |-> [loaded |-> TRUE, products |-> r.products,
                       categories |-> r.categories]]
LoadCatalogResultKeepsFlag(svc, exists, lines) ==
    IF svc.loaded THEN [threw |-> FALSE, parsed |-> FALSE, svc |-> svc]
    ELSE IF ~exists THEN [threw |-> TRUE, parsed |-> FALSE, svc |-> svc]
    ELSE LET r == LoadLines(lines, 2, svc.products, svc.categories)
         IN  [threw |-> FALSE, parsed |-> TRUE,
              svc |-> [loaded |-> svc.loaded, products |-> r.products,
                       categories |-> r.categories]]
\* loadCatalog() on the service svc = [loaded, products, categories]: whether
\* it threw, whether it parsed the file, and the service afterwards.  The
\* first line of the file is the header.
LoadCatalogResult(svc, exists, lines) ==
    IF svc.loaded THEN [threw |-> FALSE, parsed |-> FALSE, svc |-> svc]
    ELSE IF ~exists THEN [threw |-> TRUE, parsed |-> FALSE, svc |-> svc]
    ELSE LET r == LoadLines(lines, 2, svc.products, svc.categories)
         IN  [threw |-> FALSE, parsed |-> TRUE,
              svc |-> [loaded |-> TRUE, products |-> r.products,
                       categories |-> r.categories]]

\* ensureLoaded()
EnsureLoadedResult(svc, exists, lines) ==
    IF ~svc.loaded THEN LoadCatalogResult(svc, exists, lines)
    ELSE [threw |-> FALSE, parsed |-> FALSE, svc |-> svc]

(***************************************************************************)
(* ProductCatalogService: lookup, suggestions, validation                  *)
(***************************************************************************)
\* this.products.find(p => p.product_code.toLowerCase() === sku.toLowerCase())
\* || null, as << >> or <<product>>.
FindBySKU(prods, sku) ==
    LET hits == {i \in 1..Len(prods) :
                     ToLowerCase(prods[i].product_code) = ToLowerCase(sku)}
    IN  IF hits = {} THEN << >>
        ELSE <<prods[CHOOSE i \in hits : \A j \in hits : i <= j]>>

\* Collation order of the characters of product names, case apart.
CollationOrder == <<" ", "-", "0", "1", "2", "3", "4", "5", "6", "7", "8", "9",
                    "a", "b", "d", "x">>
CharRank(ch) ==
    CHOOSE i \in 1..Len(CollationOrder) : CollationOrder[i] = LowerChar(ch)

RECURSIVE ComparePrimary(_, _)
ComparePrimary(a, b) ==
    IF a = << >> /\ b = << >> THEN 0
    ELSE IF a = << >> THEN -1
    ELSE IF b = << >> THEN 1
    ELSE IF CharRank(Head(a)) < CharRank(Head(b)) THEN -1
    ELSE IF CharRank(Head(a)) > CharRank(Head(b)) THEN 1
    ELSE ComparePrimary(Tail(a), Tail(b))

RECURSIVE CompareCase(_, _)
\* Equal apart from case: at the first difference lower case sorts first.
CompareCase(a, b) ==
    IF a = << >> THEN 0
    ELSE IF Head(a) = Head(b) THEN CompareCase(Tail(a), Tail(b))
    ELSE IF Head(a) = LowerChar(Head(a)) THEN -1 ELSE 1

\* a.localeCompare(b)
LocaleCompare(a, b) ==
    IF ComparePrimary(a, b) # 0 THEN ComparePrimary(a, b) ELSE CompareCase(a, b)

SuggestionCompareMutant(a, b, partialSku) ==
    LocaleCompare(a.product_name, b.product_name)
\* The comparator getSuggestions sorts with.
SuggestionCompare(a, b, partialSku) ==
    LET aSkuMatch == Includes(ToLowerCase(a.product_code), ToLowerCase(partialSku))
        bSkuMatch == Includes(ToLowerCase(b.product_code), ToLowerCase(partialSku))
    IN  IF aSkuMatch /\ ~bSkuMatch THEN -1
        ELSE IF ~aSkuMatch /\ bSkuMatch THEN 1
        ELSE LocaleCompare(a.product_name, b.product_name)

RECURSIVE InsertSorted(_, _, _)
\* x put into the sorted sequence s after every element not greater than it.
InsertSorted(s, x, q) ==
    IF s = << >> THEN <<x>>
    ELSE IF SuggestionCompare(Head(s), x, q) <= 0
    THEN <<Head(s)>> \o InsertSorted(Tail(s), x, q)
    ELSE <<x>> \o s

RECURSIVE SortSuggestions(_, _)
\* Array.prototype.sort with the comparator above (the sort is stable).
SortSuggestions(s, q) ==
    IF s = << >> THEN << >>
    ELSE InsertSorted(SortSuggestions(SubSeq(s, 1, Len(s) - 1), q), s[Len(s)], q)

\* array.slice(0, limit)
Slice(s, limit) == SubSeq(s, 1, Min(Len(s), limit))

\* The filter of getSuggestions.
SuggestionMatch(p, partialSku) ==
    \/ Includes(ToLowerCase(p.product_code), ToLowerCase(partialSku))
    \/ Includes(ToLowerCase(p.product_name), ToLowerCase(partialSku))

\* getSuggestions(partialSku, limit)
GetSuggestions(prods, partialSku, limit) ==
    Slice(SortSuggestions(SelectSeq(prods, LAMBDA p : SuggestionMatch(p, partialSku)),
                          partialSku),
          limit)

DefaultSuggestionLimit == 10
ValidateSuggestionLimit == 3

\* One entry of issues: the message template and the values it is filled with.
Issue(kind, sku, quantity, limit) ==
    [kind |-> kind, sku |-> sku, quantity |-> quantity, limit |-> limit]

\* One entry of suggestions.
Suggestion(kind, codes, amount) == [kind |-> kind, codes |-> codes, amount |-> amount]

\* product.available_in_stock === 0
OutOfStock(product) == product.available_in_stock = 0

StockCheckMutant(product, sku, quantity) ==
    IF NumGreater(quantity, Num(product.available_in_stock))
    THEN [issues |-> <<Issue("insufficient_stock", << >>, quantity,
                             <<product.available_in_stock>>)>>,
          suggestions |-> <<Suggestion("reduce_to", << >>,
                                       <<product.available_in_stock>>)>>]
    ELSE [issues |-> << >>, suggestions |-> << >>]
\* The issues and suggestions the stock check of validateOrder appends.
StockCheck(product, sku, quantity) ==
    IF OutOfStock(product)
    THEN [issues |-> <<Issue("out_of_stock", sku, NaN, << >>)>>,
          suggestions |-> << >>]
    ELSE IF NumGreater(quantity, Num(product.available_in_stock))
    THEN [issues |-> <<Issue("insufficient_stock", << >>, quantity,
                             <<product.available_in_stock>>)>>,
          suggestions |-> <<Suggestion("reduce_to", << >>,
                                       <<product.available_in_stock>>)>>]
    ELSE [issues |-> << >>, suggestions |-> << >>]

MoqCheckMutant(product, quantity) ==
    IF NumLess(quantity, Num(product.min_order_quantity))
    THEN [issues |-> <<Issue("below_moq", << >>, quantity,
                             <<product.min_order_quantity>>)>>,
          suggestions |-> << >>]
    ELSE [issues |-> << >>, suggestions |-> << >>]
\* The issues and suggestions the MOQ check of validateOrder appends.
MoqCheck(product, quantity) ==
    IF NumLess(quantity, Num(product.min_order_quantity))
    THEN [issues |-> <<Issue("below_moq", << >>, quantity,
                             <<product.min_order_quantity>>)>>,
          suggestions |-> <<Suggestion("increase_to", << >>,
                                       <<product.min_order_quantity>>)>>]
    ELSE [issues |-> << >>, suggestions |-> << >>]

\* similar.map(p => p.product_code)
ProductCodes(prods) == [i \in 1..Len(prods) |-> prods[i].product_code]

ValidateOrderResultMutant(prods, sku, quantity) ==
    LET found == FindBySKU(prods, sku)
    IN  IF found = << >>
        THEN [valid |-> FALSE, product |-> << >>,
              issues |-> <<Issue("not_found", sku, NaN, << >>)>>,
              suggestions |->
                  <<Suggestion("did_you_mean",
                       ProductCodes(GetSuggestions(prods, sku, ValidateSuggestionLimit)),
                       << >>)>>]
        ELSE LET stock == StockCheck(found[1], sku, quantity)
                 moq == MoqCheck(found[1], quantity)
             IN  [valid |-> Len(stock.issues \o moq.issues) = 0,
                  product |-> found,
                  issues |-> stock.issues \o moq.issues,
                  suggestions |-> stock.suggestions \o moq.suggestions]
\* validateOrder(sku, quantity) on a loaded catalog.
ValidateOrderResult(prods, sku, quantity) ==
    LET found == FindBySKU(prods, sku)
    IN  IF found = << >>
        THEN LET similar == GetSuggestions(prods, sku, ValidateSuggestionLimit)
             IN  [valid |-> FALSE, product |-> << >>,
                  issues |-> <<Issue("not_found", sku, NaN, << >>)>>,
                  suggestions |->
                      IF Len(similar) > 0
                      THEN <<Suggestion("did_you_mean", ProductCodes(similar), << >>)>>
                      ELSE << >>]
        ELSE LET stock == StockCheck(found[1], sku, quantity)
                 moq == MoqCheck(found[1], quantity)
             IN  [valid |-> Len(stock.issues \o moq.issues) = 0,
                  product |-> found,
                  issues |-> stock.issues \o moq.issues,
                  suggestions |-> stock.suggestions \o moq.suggestions]

(***************************************************************************)
(* ProductCatalogService: search, categories, statistics                   *)
(***************************************************************************)
\* calculateMatchConfidence(product, query), in tenths: 10 is 1.0, 8 is 0.8.
CalculateMatchConfidenceMutant(product, q) ==
    LET queryLower == ToLowerCase(q)
    IN  IF ToLowerCase(product.product_code) = queryLower THEN 10
        ELSE IF Includes(ToLowerCase(product.product_name), queryLower) THEN 6
        ELSE IF Includes(ToLowerCase(product.product_code), queryLower) THEN 8
        ELSE IF Includes(ToLowerCase(product.description), queryLower) THEN 4
        ELSE 0
CalculateMatchConfidence(product, q) ==
    LET queryLower == ToLowerCase(q)
    IN  IF ToLowerCase(product.product_code) = queryLower THEN 10
        ELSE IF Includes(ToLowerCase(product.product_code), queryLower) THEN 8
        ELSE IF Includes(ToLowerCase(product.product_name), queryLower) THEN 6
        ELSE IF Includes(ToLowerCase(product.description), queryLower) THEN 4
        ELSE 0

\* this.products.map(product => ({product, confidence}))
ScoreProducts(prods, q) ==
    [i \in 1..Len(prods) |->
        [product |-> prods[i], confidence |-> CalculateMatchConfidence(prods[i], q)]]

RECURSIVE InsertByConfidence(_, _)
\* The match x put into the sorted sequence s after every match whose
\* confidence is not below its own: b.confidence - a.confidence.
InsertByConfidence(s, x) ==
    IF s = << >> THEN <<x>>
    ELSE IF x.confidence - Head(s).confidence <= 0
    THEN <<Head(s)>> \o InsertByConfidence(Tail(s), x)
    ELSE <<x>> \o s

SortByConfidenceMutant(s) == s
RECURSIVE SortByConfidence(_)
\* .sort((a, b) => b.confidence - a.confidence); the sort is stable.
SortByConfidence(s) ==
    IF s = << >> THEN << >>
    ELSE InsertByConfidence(SortByConfidence(SubSeq(s, 1, Len(s) - 1)), s[Len(s)])

DefaultSearchLimit == 20

\* The value of an optional limit: << >> when the argument is omitted.
LimitOr(limit, default) == IF limit = << >> THEN default ELSE limit[1]

\* The full ranked list of matches of searchProducts, before the slice.
RankedMatches(prods, q) ==
    SortByConfidence(SelectSeq(ScoreProducts(prods, q), LAMBDA m : m.confidence > 0))

\* searchProducts(query, limit) on a loaded catalog.
SearchProducts(prods, q, limit) ==
    LET matches == Slice(RankedMatches(prods, q), LimitOr(limit, DefaultSearchLimit))
    IN  [products |-> [i \in 1..Len(matches) |-> matches[i].product],
         total |-> Len(matches),
         confidence_scores |-> [i \in 1..Len(matches) |-> matches[i].confidence]]

RECURSIVE SumPrice(_)
SumPrice(prods) == IF prods = << >> THEN 0 ELSE Head(prods).price + SumPrice(Tail(prods))

\* getStats(); avg_price is the quotient sum / count, NaN on an empty list
\* (0 / 0); cache_stats is the copy CacheService.getStats() returns.
GetStats(prods, cats, st) ==
    [total_products |-> Len(prods),
     categories |-> Len(cats),
     out_of_stock |-> Len(SelectSeq(prods, LAMBDA p : p.available_in_stock = 0)),
     low_stock |-> Len(SelectSeq(prods, LAMBDA p : p.available_in_stock > 0
                                                    /\ p.available_in_stock < 10)),
     avg_price |-> IF Len(prods) = 0 THEN NaN
                   ELSE <<[sum |-> SumPrice(prods), count |-> Len(prods)]>>,
     cache_stats |-> st]

DefaultCategoryLimit == 50
CatalogCacheTTLMs == 600000

\* The key `category:${categoryCode}:${limit}` of getByCategory.
CategoryKey(categoryCode, limit) == <<"category", categoryCode, limit>>

\* this.products.filter(p => p.category.code === categoryCode).slice(0, limit)
ProductsOfCategory(prods, categoryCode, limit) ==
    Slice(SelectSeq(prods, LAMBDA p : p.category.code = categoryCode), limit)

(***************************************************************************)
(* The catalog file and the inputs of the calls                            *)
(***************************************************************************)
MaxLines == 4               \* data lines of the catalog file

RECURSIVE JoinFields(_)
\* The text of a line holding the given fields.
JoinFields(fields) ==
    IF Len(fields) = 1 THEN fields[1]
    ELSE fields[1] \o <<",">> \o JoinFields(Tail(fields))

HeaderLine == JoinFields(<< <<"c">>, <<"n">>, <<"p">>, <<"s">>, <<"m">>, <<"d">> >>)

\* code, name, price, stock, minimum order quantity, description
SampleLines ==
    { JoinFields(<< <<"A", "-", "1">>, <<"a", "b">>, <<"9">>, <<"5">>, <<"2">>, <<"d">> >>),
      JoinFields(<< <<"A", "-", "2">>, <<"b">>, <<"9">>, <<"0">>, <<"1">>, <<"d">> >>),
      JoinFields(<< <<"B", "-", "1">>, <<"B", "a">>, <<"9">>, <<"2">>, <<"5">>, <<"d">> >>),
      JoinFields(<< <<"a", "-", "3">>, <<"A", "b">>, <<"x">>, <<"3">>, <<"x">>, <<"\"", "a", ",", "d", "\"">> >>),
      JoinFields(<< <<"b", "-", "2">>, <<"a", "b">> >>) }

RECURSIVE SeqsUpTo(_, _)
\* The sequences of at most n different elements of S.
SeqsUpTo(S, n) ==
    IF n = 0 THEN {<< >>}
    ELSE LET shorter == SeqsUpTo(S, n - 1)
         IN  shorter \cup
                 UNION {{Append(s, x) : x \in {y \in S : \A i \in 1..Len(s) : s[i] # y}} :
                        s \in shorter}

\* The files the service may find: the header and at most MaxLines lines.
CatalogFiles == {<<HeaderLine>> \o body : body \in SeqsUpTo(SampleLines, MaxLines)}

\* The SKUs callers ask about.
SkuInputs == { <<"a", "-", "1">>, <<"A", "-", "2">>, <<"B", "-", "1">>,
               <<"a">>, <<"x">>, << >> }

\* The quantities validateOrder is called with.
QuantityInputs == {NaN, Num(0), Num(1), Num(3), Num(10)}

\* A value of a JSON request body: undefined, a number or a string.
JUndefined == [type |-> "undefined", num |-> 0, str |-> << >>]
JNumber(n) == [type |-> "number", num |-> n, str |-> << >>]
JString(s) == [type |-> "string", num |-> 0, str |-> s]

\* !v
Falsy(v) ==
    \/ v.type = "undefined"
    \/ v.type = "number" /\ v.num = 0
    \/ v.type = "string" /\ v.str = << >>

\* parseInt(v): a number is converted to its text first.
ParseIntValue(v) ==
    CASE v.type = "string" -> ParseInt(v.str)
      [] v.type = "number" -> Num(v.num)
      [] OTHER -> NaN

BodySkus == {JUndefined, JString(<< >>), JString(<<"a", "-", "1">>), JString(<<"x">>)}
BodyQuantities == {JUndefined, JNumber(0), JNumber(3), JString(<< >>),
                   JString(<<"3">>), JString(<<"0">>), JString(<<"x">>)}

(***************************************************************************)
(* ProductCatalogService: the operations                                   *)
(***************************************************************************)
Service == [loaded |-> loaded, products |-> products, categories |-> categories]

\* The service after a call of loadCatalog or ensureLoaded with result r.
ServiceBecomes(r) ==
    /\ loaded' = r.svc.loaded
    /\ products' = r.svc.products
    /\ categories' = r.svc.categories
    /\ parseCount' = parseCount + (IF r.parsed THEN 1 ELSE 0)

\* What a caller has seen of its call: nothing yet, the catalog, or an error.
NothingObserved(op) == [op |-> op, seen |-> "nothing", products |-> << >>]

\* A caller invokes loadCatalog(): the body holds no await, so it runs to its
\* end before the caller is suspended on the returned promise.
loadCatalog(c) ==
    /\ lpc[c] = "idle"
    /\ LET r == LoadCatalogResult(Service, fileExists, file)
       IN  /\ ServiceBecomes(r)
           /\ lpc' = [lpc EXCEPT ![c] = IF r.threw THEN "rejected" ELSE "awaiting"]
    /\ observed' = [observed EXCEPT ![c] = NothingObserved("loadCatalog")]
    /\ UNCHANGED <<fileExists, file, outcome, response, query, outsideCatalog>>

\* A caller invokes an operation that starts with await this.ensureLoaded().
ensureLoaded(c) ==
    /\ lpc[c] = "idle"
    /\ LET r == EnsureLoadedResult(Service, fileExists, file)
       IN  /\ ServiceBecomes(r)
           /\ lpc' = [lpc EXCEPT ![c] = IF r.threw THEN "rejected" ELSE "awaiting"]
    /\ observed' = [observed EXCEPT ![c] = NothingObserved("ensureLoaded")]
    /\ UNCHANGED <<fileExists, file, outcome, response, query, outsideCatalog>>

\* The caller resumes after the await and reads the catalog
\* (getAllProducts: return [...this.products]).
loadResume(c) ==
    /\ lpc[c] = "awaiting"
    /\ observed' = [observed EXCEPT ![c].seen = "catalog", ![c].products = products]
    /\ lpc' = [lpc EXCEPT ![c] = "idle"]
    /\ UNCHANGED <<fileExists, file, loaded, products, categories, parseCount,
                   outcome, response, query, outsideCatalog>>

\* The caller resumes in its catch block: the load had thrown.
loadRejected(c) ==
    /\ lpc[c] = "rejected"
    /\ lpc' = [lpc EXCEPT ![c] = "idle"]
    /\ observed' = [observed EXCEPT ![c].seen = "error"]
    /\ UNCHANGED <<fileExists, file, loaded, products, categories, parseCount,
                   outcome, response, query, outsideCatalog>>

\* The catalog file is put in place.
fileAppears ==
    /\ ~fileExists
    /\ fileExists' = TRUE
    /\ UNCHANGED <<file, loaded, products, categories, parseCount, lpc, observed,
                   outcome, response, query, outsideCatalog>>

\* What a validateOrder call leaves in the observation: its arguments,
\* whether it threw, and the value it returned.
NoResult == [valid |-> FALSE, product |-> << >>, issues |-> << >>, suggestions |-> << >>]
NoOutcome ==
    [called |-> FALSE, sku |-> << >>, quantity |-> NaN, threw |-> FALSE,
     result |-> NoResult]
NoResponse ==
    [called |-> FALSE, sku |-> JUndefined, quantity |-> JUndefined, status |-> 0,
     code |-> "", data |-> NoResult, catalogRead |-> FALSE]
OutcomeOf(sku, quantity, load) ==
    [called |-> TRUE, sku |-> sku, quantity |-> quantity, threw |-> load.threw,
     result |-> IF load.threw THEN NoResult
                ELSE ValidateOrderResult(load.svc.products, sku, quantity)]

validateOrderReserves(sku, quantity) ==
    /\ LET r == EnsureLoadedResult(Service, fileExists, file)
           o == OutcomeOf(sku, quantity, r)
           taken == {i \in 1..Len(r.svc.products) :
                        o.result.product = <<r.svc.products[i]>>}
       IN  /\ loaded' = r.svc.loaded
           /\ categories' = r.svc.categories
           /\ parseCount' = parseCount + (IF r.parsed THEN 1 ELSE 0)
           /\ products' = [i \in 1..Len(r.svc.products) |->
                              IF i \in taken /\ o.result.valid
                              THEN [r.svc.products[i] EXCEPT !.available_in_stock = 0]
                              ELSE r.svc.products[i]]
           /\ outcome' = o
    /\ response' = NoResponse
    /\ UNCHANGED <<fileExists, file, lpc, observed, query, outsideCatalog>>
\* validateOrder(sku, quantity): ensureLoaded, findBySKU, the checks.  After
\* the first await nothing else writes the catalog, so the awaits inside do
\* not change what the call reads.
validateOrder(sku, quantity) ==
    /\ LET r == EnsureLoadedResult(Service, fileExists, file)
       IN  /\ ServiceBecomes(r)
           /\ outcome' = OutcomeOf(sku, quantity, r)
    /\ response' = NoResponse
    /\ UNCHANGED <<fileExists, file, lpc, observed, query, outsideCatalog>>

\* POST /api/products/validate with body {sku, quantity}.
validateRoute(sku, quantity) ==
    IF Falsy(sku) \/ Falsy(quantity)
    THEN /\ response' = [called |-> TRUE, sku |-> sku, quantity |-> quantity,
                         status |-> 400, code |-> "MISSING_PARAMS",
                         data |-> NoResult, catalogRead |-> FALSE]
         /\ outcome' = NoOutcome
         /\ UNCHANGED <<fileExists, file, loaded, products, categories, parseCount,
                        lpc, observed, query, outsideCatalog>>
    ELSE LET r == EnsureLoadedResult(Service, fileExists, file)
             o == OutcomeOf(sku.str, ParseIntValue(quantity), r)
         IN  /\ ServiceBecomes(r)
             /\ outcome' = o
             /\ response' =
                  IF o.threw
                  THEN [called |-> TRUE, sku |-> sku, quantity |-> quantity,
                        status |-> 500, code |-> "VALIDATION_ERROR",
                        data |-> NoResult, catalogRead |-> TRUE]
                  ELSE [called |-> TRUE, sku |-> sku, quantity |-> quantity,
                        status |-> 200, code |-> "OK",
                        data |-> o.result, catalogRead |-> TRUE]
             /\ UNCHANGED <<fileExists, file, lpc, observed, query, outsideCatalog>>

(***************************************************************************)
(* ProductCatalogService: the read operations                              *)
(***************************************************************************)
MaxQueryLines == 3          \* data lines of the catalog file the reads run on
MaxCategoryCalls == 2       \* getByCategory calls in one run

\* code, name, price, stock, minimum order quantity, description: a code on
\* two lines, a price that is no number, a line of two fields, a code that
\* holds another code.
QueryLines ==
    { JoinFields(<< <<"A", "-", "1">>, <<"a", "b">>, <<"9">>, <<"5">>, <<"2">>, <<"d">> >>),
      JoinFields(<< <<"A", "-", "1">>, <<"x">>, <<"9">>, <<"7">>, <<"1">>, <<"d">> >>),
      JoinFields(<< <<"B", "-", "1">>, <<"B", "a">>, <<"x">>, <<"2">>, <<"5">>, <<"d">> >>),
      JoinFields(<< <<"b", "-", "2">>, <<"a", "b">> >>),
      JoinFields(<< <<"B", "A", "-", "1">>, <<"a">>, <<"9">>, <<"0">>, <<"1">>, <<"b">> >>) }

QueryFiles == {<<HeaderLine>> \o body : body \in SeqsUpTo(QueryLines, MaxQueryLines)}

\* The texts callers look up, search for and ask suggestions for.
QueryTexts == { <<"a", "-", "1">>, <<"A", "-", "1">>, <<"d">>, <<"b">>, << >> }

\* The optional limit of searchProducts and of getSuggestions.
SearchLimits == {<< >>, <<1>>, <<2>>}
SuggestionLimits == {<< >>, <<1>>}
CategoryCodes == { <<"A">>, <<"x">> }

\* What a read operation leaves in the observation: the operation, its
\* arguments, whether it threw, and the value it returned.
NoQuery ==
    [called |-> FALSE, op |-> "none", text |-> << >>, limit |-> << >>,
     threw |-> FALSE, products |-> << >>, scores |-> << >>, total |-> 0,
     cats |-> << >>, report |-> << >>]
QueryOf(op, text, limit) ==
    [NoQuery EXCEPT !.called = TRUE, !.op = op, !.text = text, !.limit = limit]
QueryThrew(op, text, limit) == [QueryOf(op, text, limit) EXCEPT !.threw = TRUE]

\* The part of the state a read of the catalog leaves alone.
outsideQuery == <<fileExists, file, lpc, observed, outcome, response, outsideCatalog>>

\* findBySKU(sku)
findBySKU(sku) ==
    /\ LET r == EnsureLoadedResult(Service, fileExists, file)
       IN  /\ ServiceBecomes(r)
           /\ query' = IF r.threw THEN QueryThrew("findBySKU", sku, << >>)
                       ELSE [QueryOf("findBySKU", sku, << >>) EXCEPT
                                !.products = FindBySKU(r.svc.products, sku)]
    /\ UNCHANGED outsideQuery

\* searchProducts(query, limit)
searchProducts(q, limit) ==
    /\ LET r == EnsureLoadedResult(Service, fileExists, file)
           found == SearchProducts(r.svc.products, q, limit)
       IN  /\ ServiceBecomes(r)
           /\ query' = IF r.threw THEN QueryThrew("searchProducts", q, limit)
                       ELSE [QueryOf("searchProducts", q, limit) EXCEPT
                                !.products = found.products,
                                !.scores = found.confidence_scores,
                                !.total = found.total]
    /\ UNCHANGED outsideQuery

getSuggestionsInPlace(partialSku, limit) ==
    /\ LET r == EnsureLoadedResult(Service, fileExists, file)
           sorted == SortSuggestions(r.svc.products, partialSku)
       IN  /\ loaded' = r.svc.loaded
           /\ categories' = r.svc.categories
           /\ parseCount' = parseCount + (IF r.parsed THEN 1 ELSE 0)
           /\ products' = sorted
           /\ query' = IF r.threw THEN QueryThrew("getSuggestions", partialSku, limit)
                       ELSE [QueryOf("getSuggestions", partialSku, limit) EXCEPT
                                !.products =
                                    Slice(SelectSeq(sorted,
                                              LAMBDA p : SuggestionMatch(p, partialSku)),
                                          LimitOr(limit, DefaultSuggestionLimit))]
    /\ UNCHANGED outsideQuery
\* getSuggestions(partialSku, limit)
getSuggestions(partialSku, limit) ==
    /\ LET r == EnsureLoadedResult(Service, fileExists, file)
       IN  /\ ServiceBecomes(r)
           /\ query' = IF r.threw THEN QueryThrew("getSuggestions", partialSku, limit)
                       ELSE [QueryOf("getSuggestions", partialSku, limit) EXCEPT
                                !.products =
                                    GetSuggestions(r.svc.products, partialSku,
                                        LimitOr(limit, DefaultSuggestionLimit))]
    /\ UNCHANGED outsideQuery

\* getAllProducts()
getAllProducts ==
    /\ LET r == EnsureLoadedResult(Service, fileExists, file)
       IN  /\ ServiceBecomes(r)
           /\ query' = IF r.threw THEN QueryThrew("getAllProducts", << >>, << >>)
                       ELSE [QueryOf("getAllProducts", << >>, << >>) EXCEPT
                                !.products = r.svc.products]
    /\ UNCHANGED outsideQuery

\* getAllProducts(), the caller keeping what it is handed: return
\* [...this.products] is a new array whose elements are the Product objects
\* of this.products themselves.  A reference is the position of the object
\* in this.products; 0 refers to an object of the caller's own.
getAllProductsHeld ==
    /\ LET r == EnsureLoadedResult(Service, fileExists, file)
       IN  /\ ServiceBecomes(r)
           /\ query' = IF r.threw THEN QueryThrew("getAllProducts", << >>, << >>)
                       ELSE [QueryOf("getAllProducts", << >>, << >>) EXCEPT
                                !.products = r.svc.products]
           /\ held' = IF r.threw THEN held
                      ELSE [taken |-> TRUE,
                            refs |-> [i \in 1..Len(r.svc.products) |-> i]]
    /\ UNCHANGED <<fileExists, file, lpc, observed, outcome, response,
                   now, rlVars, cacheVars, pending, proc, clientVars>>

\* What the caller's steps leave alone.
outsideCaller == <<now, rlVars, cacheVars, pending, proc, fileExists, file, loaded,
                   categories, parseCount, lpc, observed, outcome, response, query,
                   clientVars>>

\* The caller pushes an object of its own onto the array.
callerPush ==
    /\ held.taken
    /\ Len(held.refs) <= Len(products)
    /\ held' = [held EXCEPT !.refs = Append(@, 0)]
    /\ UNCHANGED <<products, outsideCaller>>

\* The caller removes the first element of the array.
callerShift ==
    /\ held.taken
    /\ held.refs # << >>
    /\ held' = [held EXCEPT !.refs = Tail(@)]
    /\ UNCHANGED <<products, outsideCaller>>

\* The caller reverses the array.
callerReverse ==
    /\ held.taken
    /\ Len(held.refs) > 1
    /\ held' = [held EXCEPT !.refs = [i \in 1..Len(@) |-> @[Len(@) + 1 - i]]]
    /\ UNCHANGED <<products, outsideCaller>>

\* The caller assigns v to available_in_stock of the i-th element: the
\* element is the object the service holds.
callerWrite(i, v) ==
    /\ held.taken
    /\ i \in 1..Len(held.refs)
    /\ IF held.refs[i] > 0
       THEN products' = [products EXCEPT ![held.refs[i]].available_in_stock = v]
       ELSE products' = products
    /\ UNCHANGED <<held, outsideCaller>>

\* getByCategory(categoryCode) with the default limit: the list comes from
\* the service's own CacheService, created with a TTL of 10 minutes, when a
\* live entry is there, and is stored in it otherwise.
getByCategory(categoryCode) ==
    /\ stats.hits + stats.misses < MaxCategoryCalls
    /\ LET r == EnsureLoadedResult(Service, fileExists, file)
           cacheKey == CategoryKey(categoryCode, DefaultCategoryLimit)
           got == CacheGetResult(cache, stats, cacheKey, now)
           hit == cacheKey \in DOMAIN cache /\ ~Expired(cache[cacheKey], now)
           list == ProductsOfCategory(r.svc.products, categoryCode, DefaultCategoryLimit)
       IN  /\ ServiceBecomes(r)
           /\ IF r.threw
              THEN /\ query' = QueryThrew("getByCategory", categoryCode, << >>)
                   /\ UNCHANGED <<cache, stats>>
              ELSE IF hit
              THEN /\ query' = [QueryOf("getByCategory", categoryCode, << >>) EXCEPT
                                   !.products = cache[cacheKey].value]
                   /\ cache' = got.cache
                   /\ stats' = got.stats
              ELSE /\ query' = [QueryOf("getByCategory", categoryCode, << >>) EXCEPT
                                   !.products = list]
                   /\ cache' = MapSet(got.cache, cacheKey,
                                      NewEntry(list, <<CatalogCacheTTLMs>>, now))
                   /\ stats' = [got.stats EXCEPT !.sets = @ + 1,
                                                 !.size = Cardinality(DOMAIN cache')]
    /\ UNCHANGED <<now, rlVars, nextSweep, cacheOps, written, lastGet,
                   fileExists, file, lpc, observed, outcome, response, hostVars,
                   clientVars>>

\* A read that does not wait for the load leaves the service as it is.
ServiceUntouched ==
    UNCHANGED <<loaded, products, categories, parseCount, outsideQuery>>

\* getCategories()
getCategories ==
    /\ query' = [QueryOf("getCategories", << >>, << >>) EXCEPT !.cats = categories]
    /\ ServiceUntouched

\* getStats()
getStats ==
    /\ query' = [QueryOf("getStats", << >>, << >>) EXCEPT
                    !.report = <<GetStats(products, categories, stats)>>]
    /\ ServiceUntouched

\* GET /health
healthRoute ==
    /\ query' = [QueryOf("health", << >>, << >>) EXCEPT
                    !.report = <<GetStats(products, categories, stats)>>]
    /\ ServiceUntouched

LoadCallers == {"c1", "c2"}

\* new ProductCatalogService(), before any call.
InitCatalogState ==
    /\ loaded = FALSE
    /\ products = << >>
    /\ categories = << >>
    /\ parseCount = 0
    /\ lpc = [c \in LoadCallers |-> "idle"]
    /\ observed = [c \in LoadCallers |-> NothingObserved("none")]
    /\ outcome = NoOutcome
    /\ response = NoResponse
    /\ query = NoQuery

\* No catalog file: the runs of the RateLimiter and of the CacheService.
NoCatalog ==
    /\ InitCatalogState
    /\ fileExists = FALSE
    /\ file = <<HeaderLine>>

\* Date.now() advances.
Tick ==
    /\ \E d \in TickSteps :
         /\ now + d <= MaxTime
         /\ now' = now + d
    /\ UNCHANGED <<rlVars, outsideRL>>

InitRLState ==
    /\ now = 0
    /\ requests = << >>
    /\ calls = [id \in Identifiers |-> << >>]
    /\ wpc = [w \in Waiters |-> "idle"]
    /\ wid = [w \in Waiters |-> "default"]
    /\ wake = [w \in Waiters |-> 0]
    /\ slept = [w \in Waiters |-> << >>]
    /\ probe = [op |-> "none", id |-> "default", value |-> 0]

InitRL == InitRLState /\ InitCacheState /\ NoCatalog

NextRL ==
    \/ Tick
    \/ cleanup
    \/ \E id \in IdentifierArgs : checkLimit(IdentifierOr(id))
    \/ \E w \in Waiters, id \in IdentifierArgs : waitForSlotEnter(w, IdentifierOr(id))
    \/ \E w \in Waiters : waitForSlotCheck(w)
    \/ \E w \in Waiters : waitForSlotSleep(w)
    \/ \E w \in Waiters : waitForSlotWake(w)

SpecRL == InitRL /\ [][NextRL]_vars

\* Date.now() advances while a timer of waitForSlot is pending.
TickWaiting ==
    /\ \E w \in Waiters : wpc[w] = "sleep" /\ now < wake[w]
    /\ \E d \in TickSteps : now' = now + d
    /\ UNCHANGED <<rlVars, outsideRL>>

\* The times of the grants made before the waiters arrive.
EarlierGrantTimes == {0, 500, 1000}

\* The histories checkLimit can have left for an identity by time 1000: at
\* most maxRequests records, in the order of their grants.
EarlierHistories ==
    {h \in UNION {[1..n -> EarlierGrantTimes] : n \in 0..MaxRequests} :
        \A i \in 1..Len(h) - 1 : h[i] <= h[i + 1]}

\* A limiter that has been in use for a second when the callers of
\* waitForSlot arrive.
InitWait ==
    /\ now = 1000
    /\ \E h \in EarlierHistories :
          requests = IF h = << >> THEN << >>
                     ELSE [id \in {"default"} |->
                              [i \in 1..Len(h) |-> [timestamp |-> h[i], count |-> 1]]]
    /\ calls = [id \in Identifiers |-> << >>]
    /\ wpc = [w \in Waiters |-> "idle"]
    /\ wid = [w \in Waiters |-> "default"]
    /\ wake = [w \in Waiters |-> 0]
    /\ slept = [w \in Waiters |-> << >>]
    /\ probe = [op |-> "none", id |-> "default", value |-> 0]
    /\ InitCacheState /\ NoCatalog

\* Callers of waitForSlot compete for the slots of one limiter.
NextWait ==
    \/ TickWaiting
    \/ \E w \in Waiters, id \in Identifiers : waitForSlotEnter(w, id)
    \/ \E w \in Waiters : waitForSlotCheck(w)
    \/ \E w \in Waiters : waitForSlotSleep(w)
    \/ \E w \in Waiters : waitForSlotWake(w)

\* Time advances, and the event loop runs every continuation that is ready
\* and every timer that is due.
SpecWait ==
    /\ InitWait
    /\ [][NextWait]_vars
    /\ WF_vars(TickWaiting)
    /\ \A w \in Waiters :
          /\ WF_vars(waitForSlotCheck(w))
          /\ WF_vars(waitForSlotSleep(w))
          /\ WF_vars(waitForSlotWake(w))

\* The caller of a waitForSlot call that is under way gives up: its request
\* was aborted, or its own timeout has passed.  waitForSlot takes the
\* identifier only, so nothing of this reaches the loop.
cancel(w) ==
    /\ wpc[w] # "idle"
    /\ ~cancelled[w]
    /\ cancelled' = [cancelled EXCEPT ![w] = TRUE]
    /\ UNCHANGED <<now, rlVars, cacheVars, catalogVars, hostVars, remembered, emailVars>>

\* Callers of waitForSlot, some of which give up while they wait.
NextCancel ==
    \/ TickWaiting
    \/ \E w \in Waiters : cancel(w)
    \/ \E w \in Waiters, id \in Identifiers : ~cancelled[w] /\ waitForSlotEnter(w, id)
    \/ \E w \in Waiters : waitForSlotCheck(w)
    \/ \E w \in Waiters : waitForSlotSleep(w)
    \/ \E w \in Waiters : waitForSlotWake(w)

SpecCancel == InitWait /\ [][NextCancel]_vars

\* Callers of checkLimit, and callers reading the remaining count and the
\* reset time.
NextIntrospect ==
    \/ Tick
    \/ cleanup
    \/ \E id \in Identifiers : checkLimit(id)
    \/ \E id \in Identifiers : getRemainingRequests(id)
    \/ \E id \in Identifiers : getResetTime(id)

SpecIntrospect == InitRL /\ [][NextIntrospect]_vars

InitCache == InitRLState /\ InitCacheState /\ NoCatalog

NextCache ==
    \/ CacheTick
    \/ CacheCleanup
    \/ CacheClear
    \/ \E k \in Keys, v \in Values, ttl \in TtlArgs : CacheSet(k, v, ttl)
    \/ \E k \in Keys : CacheGet(k)
    \/ \E k \in Keys : CacheHas(k)
    \/ \E k \in Keys : CacheDelete(k)

SpecCache == InitCache /\ [][NextCache]_vars

\* Every operation of the CacheService, getOrSet and destroy included.
NextCacheAll ==
    \/ CacheTick
    \/ CacheCleanup
    \/ CacheClear
    \/ CacheDestroy
    \/ \E k \in Keys : CacheSet(k, "v2", <<100>>)
    \/ \E k \in Keys : CacheGet(k)
    \/ \E k \in Keys : CacheHas(k)
    \/ \E k \in Keys : CacheDelete(k)
    \/ \E c \in GetOrSetCallers, k \in Keys, ttl \in GetOrSetTtlArgs :
          getOrSetStart(c, k, ttl)
    \/ \E c \in GetOrSetCallers, v \in FactoryResults : getOrSetResolve(c, v)
    \/ \E c \in GetOrSetCallers : getOrSetReject(c)

SpecCacheAll == InitCache /\ [][NextCacheAll]_vars

\* Two callers of getOrSet whose factories run at the same time, and a reader.
NextOverlap ==
    \/ CacheTick
    \/ \E k \in Keys : CacheGet(k)
    \/ \E c \in OverlappingCallers, k \in Keys : getOrSetStart(c, k, <<100>>)
    \/ \E c \in OverlappingCallers, v \in Values : getOrSetResolve(c, v)
    \/ \E c \in OverlappingCallers : getOrSetReject(c)

SpecOverlap == InitCache /\ [][NextOverlap]_vars

\* A cache that is written, read and destroyed while the clock runs and the
\* interval fires.  Time advances, and a timer that is due runs: the event
\* loop calls the setInterval callback once its time has come.
NextSweep ==
    \/ CacheTick
    \/ CacheCleanup
    \/ CacheDestroy
    \/ \E k \in Keys, ttl \in TtlArgs : CacheSet(k, "v1", ttl)
    \/ \E k \in Keys : CacheGet(k)

SpecSweep ==
    InitCache /\ [][NextSweep]_vars /\ WF_vars(CacheTick) /\ WF_vars(CacheCleanup)

\* The server process: its services use their caches (get and set with the
\* default TTL, as the catalog and the email processor do) while the clock
\* runs and the sweep fires, until a signal closes the server and the close
\* callback exits the process.
NextShutdown ==
    \/ /\ proc # "exited"
       /\ \/ CacheTick
          \/ CacheCleanup
          \/ \E k \in Keys, v \in Values : CacheSet(k, v, << >>)
          \/ \E k \in Keys : CacheGet(k)
    \/ sigterm
    \/ sigint
    \/ serverClosed

SpecShutdown == InitCache /\ [][NextShutdown]_vars

\* Callers of loadCatalog and ensureLoaded, on any catalog file.
InitLoad ==
    /\ InitRLState /\ InitCacheState /\ InitCatalogState
    /\ fileExists \in BOOLEAN
    /\ file \in CatalogFiles

NextLoad ==
    \/ fileAppears
    \/ \E c \in LoadCallers : loadCatalog(c)
    \/ \E c \in LoadCallers : ensureLoaded(c)
    \/ \E c \in LoadCallers : loadResume(c)
    \/ \E c \in LoadCallers : loadRejected(c)

SpecLoad == InitLoad /\ [][NextLoad]_vars

\* Lines whose codes are in the category table (twice the same one, and one
\* without a dash), a code that is not, and a code that is the name of an
\* inherited property.
CategoryLines ==
    { JoinFields(<< <<"D", "S", "K", "-", "1">>, <<"a">>, <<"9">>, <<"5">>, <<"2">>, <<"d">> >>),
      JoinFields(<< <<"D", "S", "K", "-", "2">>, <<"b">>, <<"9">>, <<"5">>, <<"2">>, <<"d">> >>),
      JoinFields(<< <<"C", "H", "R", "-", "1", "-", "x">>, <<"a">>, <<"9">>, <<"5">>, <<"2">>, <<"d">> >>),
      JoinFields(<< <<"S", "F", "A">>, <<"a">>, <<"9">>, <<"5">>, <<"2">>, <<"d">> >>),
      JoinFields(<< <<"X", "-", "1">>, <<"a">>, <<"9">>, <<"5">>, <<"2">>, <<"d">> >>),
      JoinFields(<< <<"c", "o", "n", "s", "t", "r", "u", "c", "t", "o", "r", "-", "1">>,
                    <<"a">>, <<"9">>, <<"5">>, <<"2">>, <<"d">> >>) }

\* The catalog files of at most three of these lines.
CategoryFiles == {<<HeaderLine>> \o body : body \in SeqsUpTo(CategoryLines, 3)}

InitCategories ==
    /\ InitRLState /\ InitCacheState /\ InitCatalogState
    /\ fileExists \in BOOLEAN
    /\ file \in CategoryFiles

\* The loads of the catalog, and a caller reading the category table.
NextCategories ==
    \/ fileAppears
    \/ \E c \in LoadCallers : loadCatalog(c)
    \/ \E c \in LoadCallers : ensureLoaded(c)
    \/ \E c \in LoadCallers : loadResume(c)
    \/ \E c \in LoadCallers : loadRejected(c)
    \/ getCategories

SpecCategories == InitCategories /\ [][NextCategories]_vars

\* Calls of the catalog's operations, one at a time, on any catalog file.
InitCatalog == InitLoad

NextCatalog ==
    \/ \E sku \in SkuInputs, quantity \in QuantityInputs : validateOrder(sku, quantity)
    \/ \E sku \in BodySkus, quantity \in BodyQuantities : validateRoute(sku, quantity)

SpecCatalog == InitCatalog /\ [][NextCatalog]_vars

\* The read operations of the catalog, one at a time, on any catalog file.
InitQuery ==
    /\ InitRLState /\ InitCacheState /\ InitCatalogState
    /\ fileExists \in BOOLEAN
    /\ file \in QueryFiles

NextQuery ==
    \/ \E sku \in QueryTexts : findBySKU(sku)
    \/ \E q \in QueryTexts, limit \in SearchLimits : searchProducts(q, limit)
    \/ \E q \in QueryTexts, limit \in SuggestionLimits : getSuggestions(q, limit)
    \/ \E code \in CategoryCodes : getByCategory(code)
    \/ getAllProducts
    \/ getCategories
    \/ getStats
    \/ healthRoute

SpecQuery == InitQuery /\ [][NextQuery]_vars

\* The stock a caller writes into a product it was handed.
WrittenStocks == {0}

\* A caller of getAllProducts that changes what it was handed, and the reads
\* made afterwards, on the catalog files of at most two lines.
InitAlias ==
    /\ InitRLState /\ InitCacheState /\ InitCatalogState
    /\ fileExists = TRUE
    /\ file \in {f \in QueryFiles : Len(f) <= 3}

NextAlias ==
    \/ getAllProductsHeld
    \/ callerPush
    \/ callerShift
    \/ callerReverse
    \/ \E i \in 1..MaxQueryLines, v \in WrittenStocks : callerWrite(i, v)
    \/ \E sku \in QueryTexts : findBySKU(sku)
    \/ getAllProducts

SpecAlias == InitAlias /\ [][NextAlias]_vars

\* The SKUs, quantities and texts the callers of the service pass.
ServiceSkus == { <<"a", "-", "1">>, <<"x">> }
ServiceQuantities == {Num(1), Num(10)}
ServiceTexts == { <<"b">> }

\* The outcomes a caller keeps in one run.
MaxRemembered == 2

\* A caller takes the outcome of the validateOrder call it has just made and
\* keeps it.
rememberOutcome ==
    /\ outcome.called
    /\ Len(remembered) < MaxRemembered
    /\ remembered' = Append(remembered, outcome)
    /\ outcome' = NoOutcome
    /\ UNCHANGED <<now, rlVars, cacheVars, hostVars, cancelled, emailVars,
                   fileExists, file, loaded, products, categories, parseCount,
                   lpc, observed, response, query>>

\* Every operation of the service, in any order, on the catalog files of at
\* most two lines; the file is in place or missing for the whole run.
InitService ==
    /\ InitRLState /\ InitCacheState /\ InitCatalogState
    /\ fileExists \in BOOLEAN
    /\ file \in {f \in QueryFiles : Len(f) <= 3}

NextService ==
    \/ \E sku \in ServiceSkus, quantity \in ServiceQuantities : validateOrder(sku, quantity)
    \/ \E sku \in ServiceTexts : findBySKU(sku)
    \/ \E q \in ServiceTexts : searchProducts(q, << >>)
    \/ \E q \in ServiceTexts : getSuggestions(q, << >>)
    \/ getByCategory(<<"A">>)
    \/ getAllProducts
    \/ getCategories
    \/ getStats

SpecService == InitService /\ [][NextService]_vars

\* A caller that validates, searches and asks for suggestions, and keeps the
\* outcomes of its validateOrder calls.
NextRepeat ==
    \/ rememberOutcome
    \/ \E sku \in ServiceSkus, quantity \in ServiceQuantities : validateOrder(sku, quantity)
    \/ \E q \in ServiceTexts : searchProducts(q, << >>)
    \/ \E q \in ServiceTexts : getSuggestions(q, << >>)

SpecRepeat == InitService /\ [][NextRepeat]_vars

(***************************************************************************)
(* EmailProcessor and GeminiClient                                         *)
(***************************************************************************)
EmailCacheTTLMs == 1000     \* the TTL the EmailProcessor gives its CacheService
MaxEmails == 4              \* requests to processEmail in one run

Lowercase == <<"a", "b", "c", "d", "e", "f", "g", "h", "i", "j", "k", "l", "m",
               "n", "o", "p", "q", "r", "s", "t", "u", "v", "w", "x", "y", "z">>
Uppercase == <<"A", "B", "C", "D", "E", "F", "G", "H", "I", "J", "K", "L", "M",
               "N", "O", "P", "Q", "R", "S", "T", "U", "V", "W", "X", "Y", "Z">>

\* The place of x in the sequence s.
IndexIn(s, x) == CHOOSE i \in 1..Len(s) : s[i] = x

\* The byte Buffer.from(string) holds for a character (UTF-8; the characters
\* of the emails are letters, digits and the space).
CharCode(ch) ==
    IF ch = " " THEN 32
    ELSE IF ch \in Digits THEN 48 + DigitValue(ch)
    ELSE IF \E i \in 1..26 : Uppercase[i] = ch THEN 64 + IndexIn(Uppercase, ch)
    ELSE 96 + IndexIn(Lowercase, ch)

\* Buffer.from(emailContent)
Utf8(s) == [i \in 1..Len(s) |-> CharCode(s[i])]

\* The base64 character of a group of six bits.
Sextet(n) ==
    IF n < 26 THEN Uppercase[n + 1]
    ELSE IF n < 52 THEN Lowercase[n - 25]
    ELSE IF n < 62 THEN <<"0", "1", "2", "3", "4", "5", "6", "7", "8", "9">>[n - 51]
    ELSE IF n = 62 THEN "+" ELSE "/"

RECURSIVE Base64(_)
\* buffer.toString('base64'): three bytes give four characters, and the last
\* group is padded with '='.
Base64(bytes) ==
    IF bytes = << >> THEN << >>
    ELSE LET b1 == bytes[1]
             b2 == IF Len(bytes) > 1 THEN bytes[2] ELSE 0
             b3 == IF Len(bytes) > 2 THEN bytes[3] ELSE 0
             n == b1 * 65536 + b2 * 256 + b3
         IN  <<Sextet(n \div 262144), Sextet((n \div 4096) % 64),
               IF Len(bytes) > 1 THEN Sextet((n \div 64) % 64) ELSE "=",
               IF Len(bytes) > 2 THEN Sextet(n % 64) ELSE "=">>
             \o (IF Len(bytes) > 3 THEN Base64(SubSeq(bytes, 4, Len(bytes))) ELSE << >>)

\* The characters of the base64 text the key keeps: .substr(0, 16)
KeyLength == 16

GenerateCacheKeyWhole(emailContent) ==
    <<"e", "m", "a", "i", "l", "_">> \o Base64(Utf8(emailContent))
\* generateCacheKey(emailContent)
GenerateCacheKey(emailContent) ==
    LET hash == Base64(Utf8(emailContent))
    IN  <<"e", "m", "a", "i", "l", "_">> \o SubSeq(hash, 1, Min(KeyLength, Len(hash)))

\* The emails sent in: two orders that differ after their twelfth character,
\* and a short one.
OrderDesks == <<"o", "r", "d", "e", "r", " ", "1", "2", " ", "d", "e", "s", "k", "s">>
OrderLamps == <<"o", "r", "d", "e", "r", " ", "1", "2", " ", "d", "e", "s", "k", " ",
                "l", "a", "m", "p", "s">>
Greeting == <<"h", "i">>
EmailContents == {OrderDesks, OrderLamps, Greeting}

\* The emails each of the two clients sends.
EmailsFrom(w) == IF w = "w1" THEN {OrderDesks, OrderLamps} ELSE {Greeting}

\* parseResponse(response.text) for the answer to the prompt built from an
\* email, and createFallbackResult(emailContent): what the result says is
\* kept as the email it is about.
ParsedResult(emailContent) == [kind |-> "ai", content |-> emailContent]
FallbackResult(emailContent) == [kind |-> "fallback", content |-> emailContent]

\* What processEmail returns: the result, and whether it came from the cache.
ReturnOf(result, fromCache) ==
    [kind |-> result.kind, content |-> result.content, cached |-> fromCache]

processEmailUngated(w, emailContent) ==
    /\ epc[w] = "idle" /\ wpc[w] = "idle"
    /\ stats.hits + stats.misses < MaxEmails
    /\ ereq' = [ereq EXCEPT ![w] = emailContent]
    /\ LET cacheKey == GenerateCacheKey(emailContent)
           got == CacheGetResult(cache, stats, cacheKey, now)
           hit == cacheKey \in DOMAIN cache /\ ~Expired(cache[cacheKey], now)
       IN  /\ cache' = got.cache
           /\ stats' = got.stats
           /\ IF hit
              THEN /\ eret' = [eret EXCEPT ![w] = ReturnOf(cache[cacheKey].value, TRUE)]
                   /\ UNCHANGED epc
              ELSE /\ eret' = [eret EXCEPT ![w] = NoReturn]
                   /\ epc' = [epc EXCEPT ![w] = "waiting"]
    /\ UNCHANGED <<now, rlVars, extCalls, nextSweep, cacheOps, written, lastGet,
                   catalogVars, hostVars, remembered, cancelled>>
\* processEmail(request) up to its first await: the cached result is returned
\* when there is one; otherwise generateContent is called, which starts with
\* await this.rateLimiter.waitForSlot(), for the default identity.
processEmail(w, emailContent) ==
    /\ epc[w] = "idle" /\ wpc[w] = "idle"
    /\ stats.hits + stats.misses < MaxEmails
    /\ ereq' = [ereq EXCEPT ![w] = emailContent]
    /\ LET cacheKey == GenerateCacheKey(emailContent)
           got == CacheGetResult(cache, stats, cacheKey, now)
           hit == cacheKey \in DOMAIN cache /\ ~Expired(cache[cacheKey], now)
       IN  /\ cache' = got.cache
           /\ stats' = got.stats
           /\ IF hit
              THEN /\ eret' = [eret EXCEPT ![w] = ReturnOf(cache[cacheKey].value, TRUE)]
                   /\ UNCHANGED <<epc, wpc, wid, slept>>
              ELSE /\ eret' = [eret EXCEPT ![w] = NoReturn]
                   /\ epc' = [epc EXCEPT ![w] = "waiting"]
                   /\ wpc' = [wpc EXCEPT ![w] = "check"]
                   /\ wid' = [wid EXCEPT ![w] = "default"]
                   /\ slept' = [slept EXCEPT ![w] = << >>]
    /\ UNCHANGED <<now, requests, calls, wake, probe, extCalls, nextSweep, cacheOps,
                   written, lastGet, catalogVars, hostVars, remembered, cancelled>>

\* generateContent after waitForSlot has returned: the call to the external
\* model, this.client.models.generateContent(...), is made.
callModel(w) ==
    /\ epc[w] = "waiting" /\ wpc[w] = "idle"
    /\ epc' = [epc EXCEPT ![w] = "calling"]
    /\ extCalls' = Append(extCalls, now)
    /\ UNCHANGED <<now, rlVars, cacheVars, catalogVars, hostVars, remembered,
                   cancelled, ereq, eret>>

\* The model answers with a text parseResponse accepts: the result is stored
\* under the key of the email, with the default TTL, and returned.
modelAnswers(w) ==
    /\ epc[w] = "calling"
    /\ epc' = [epc EXCEPT ![w] = "idle"]
    /\ LET result == ParsedResult(ereq[w])
       IN  /\ cache' = MapSet(cache, GenerateCacheKey(ereq[w]),
                              NewEntry(result, <<EmailCacheTTLMs>>, now))
           /\ stats' = [stats EXCEPT !.sets = @ + 1,
                                     !.size = Cardinality(DOMAIN cache')]
           /\ eret' = [eret EXCEPT ![w] = ReturnOf(result, FALSE)]
    /\ UNCHANGED <<now, rlVars, nextSweep, cacheOps, written, lastGet, catalogVars,
                   hostVars, remembered, cancelled, ereq, extCalls>>

\* The call rejects, the answer is empty, or it is no JSON: processEmail
\* catches the error and returns the fallback result, which is not stored.
modelFails(w) ==
    /\ epc[w] = "calling"
    /\ epc' = [epc EXCEPT ![w] = "idle"]
    /\ eret' = [eret EXCEPT ![w] = ReturnOf(FallbackResult(ereq[w]), FALSE)]
    /\ UNCHANGED <<now, rlVars, cacheVars, catalogVars, hostVars, remembered,
                   cancelled, ereq, extCalls>>

\* Date.now() advances between two turns of the event loop: the continuation
\* of await waitForSlot() runs in the turn of the check that granted the slot.
TickTurn ==
    /\ \A w \in Waiters : ~(epc[w] = "waiting" /\ wpc[w] = "idle")
    /\ \E d \in TickSteps :
         /\ now + d <= MaxTime
         /\ now' = now + d
    /\ UNCHANGED <<rlVars, outsideRL>>

\* Requests to processEmail, their waits for a slot and their calls.
NextEmail ==
    \/ TickTurn
    \/ \E w \in Waiters : \E e \in EmailsFrom(w) : processEmail(w, e)
    \/ \E w \in Waiters : waitForSlotCheck(w)
    \/ \E w \in Waiters : waitForSlotSleep(w)
    \/ \E w \in Waiters : waitForSlotWake(w)
    \/ \E w \in Waiters : callModel(w)
    \/ \E w \in Waiters : modelAnswers(w)
    \/ \E w \in Waiters : modelFails(w)

SpecEmail == InitRL /\ [][NextEmail]_vars

(***************************************************************************)
(* Claims about the RateLimiter                                            *)
(***************************************************************************)
\* Timestamps of the granted checkLimit calls of an identifier, oldest first.
GrantedTimes(id) ==
    LET g == SelectSeq(calls[id], LAMBDA c : c.ok)
    IN  [i \in 1..Len(g) |-> g[i].t]

\* Number of grants of id recorded in the trailing interval (t - WindowMs, t].
GrantsInWindow(id, t) ==
    LET g == GrantedTimes(id)
    IN  Cardinality({i \in 1..Len(g) : g[i] > t - WindowMs /\ g[i] <= t})

\* C1: for every identifier, whatever the interleaving of checkLimit and
\* waitForSlot callers, the grants recorded in any trailing interval
\* (t - windowMs, t] number at most maxRequests.  An interval ending between
\* two grants holds a subset of the one ending at the latest grant inside it,
\* so the intervals ending at a grant and at the current time decide it.
C1_SlidingWindowBound ==
    \A id \in Identifiers :
        LET g == GrantedTimes(id)
        IN  \A t \in {g[i] : i \in 1..Len(g)} \cup {now} :
                GrantsInWindow(id, t) <= MaxRequests

\* C1 witness: the window of an identifier is full, a waitForSlot caller of
\* that identifier has been denied, and the window has already slid once.
C1_Witness ==
    \E id \in Identifiers, w \in Waiters :
        /\ wid[w] = id
        /\ wpc[w] \in {"denied", "sleep"}
        /\ GrantsInWindow(id, now) = MaxRequests
        /\ Len(GrantedTimes(id)) > MaxRequests

\* Records of a stored history that are newer than t - windowMs.
NewerThan(h, t) == {i \in 1..Len(h) : h[i].timestamp > t - WindowMs}

\* C5: checkLimit(id) returns true exactly when fewer than maxRequests
\* recorded timestamps of id are newer than now - windowMs; a granted call
\* records exactly one new timestamp, now, and a denied call records nothing.
C5_AllowAndRecord ==
    \A id \in Identifiers : \A i \in 1..Len(calls[id]) :
        LET c == calls[id][i]
            live == NewerThan(c.before, c.t)
        IN  /\ c.ok <=> (Cardinality(live) < MaxRequests)
            /\ c.ok =>
                 /\ Len(c.after) = Cardinality(live) + 1
                 /\ c.after[Len(c.after)] = [timestamp |-> c.t, count |-> 1]
                 /\ SubSeq(c.after, 1, Len(c.after) - 1) =
                        SelectSeq(c.before, LAMBDA r : r.timestamp > c.t - WindowMs)
            /\ ~c.ok => c.after = c.before

\* C5 witness: a granted call that found an expired record, and a denied call.
C5_Witness ==
    \E id \in Identifiers : \E i, j \in 1..Len(calls[id]) :
        /\ calls[id][i].ok
        /\ Cardinality(NewerThan(calls[id][i].before, calls[id][i].t))
               < Len(calls[id][i].before)
        /\ ~calls[id][j].ok

\* C10: from an empty history, maxRequests consecutive calls inside one
\* window are all granted, the next call inside that window is denied, and a
\* call made once windowMs has elapsed since the earliest recorded timestamp
\* is granted.
C10_AllowDenyAllow ==
    \A id \in Identifiers :
        LET log == calls[id]
        IN  /\ \A i \in 1..Len(log) :
                   (i <= MaxRequests /\ log[1].before = << >>
                        /\ log[i].t < log[1].t + WindowMs) => log[i].ok
            /\ (Len(log) > MaxRequests /\ log[1].before = << >>
                    /\ log[MaxRequests + 1].t < log[1].t + WindowMs)
                   => ~log[MaxRequests + 1].ok
            /\ \A i \in 1..Len(log) :
                   (log[i].before # << >>
                        /\ log[i].t >= log[i].before[1].timestamp + WindowMs)
                   => log[i].ok

\* C10 witness: allow (maxRequests times), deny, then allow after the window.
C10_Witness ==
    \E id \in Identifiers :
        LET log == calls[id]
        IN  /\ Len(log) >= MaxRequests + 2
            /\ \A i \in 1..MaxRequests : log[i].ok
            /\ ~log[MaxRequests + 1].ok
            /\ log[MaxRequests + 1].t < log[1].t + WindowMs
            /\ log[MaxRequests + 2].ok
            /\ log[MaxRequests + 2].t >= log[1].t + WindowMs

(***************************************************************************)
(* Claims about the CacheService                                           *)
(***************************************************************************)
\* The last get(k) read a key whose latest set, given a ttl, was followed by
\* no set, delete or clear of k.
ReadAfterSet == lastGet.called /\ lastGet.set # << >> /\ lastGet.set[1].ttl # << >>

\* The outcome of the last get against a time to live of ttl: the value and
\* the entry in place before t0 + ttl, a miss and no entry after it.
GetHonoursTTL(ttl) ==
    LET w == lastGet.set[1]
    IN  /\ lastGet.t < w.t0 + ttl =>
              (lastGet.value = w.value /\ lastGet.stored)
        /\ lastGet.t > w.t0 + ttl =>
              (lastGet.value = Null /\ ~lastGet.stored)

\* C4 as stated: after set(k, v, ttl) at t0 with no later set or delete of k,
\* get(k) before t0 + ttl returns v and leaves the entry in place, and get(k)
\* after t0 + ttl reports a miss and removes the entry, for every ttl.
C4_AsStated == ReadAfterSet => GetHonoursTTL(lastGet.set[1].ttl[1])

\* C4 amended: the same for every ttl other than 0; a ttl of 0 is taken as
\* omitted, so the entry lives for the default TTL.
C4_TtlExpiry ==
    ReadAfterSet =>
        LET ttl == lastGet.set[1].ttl[1]
        IN  GetHonoursTTL(IF ttl = 0 THEN DefaultTTLMs ELSE ttl)

\* C4 witness: a get made after t0 + ttl, ttl = 100, has reported a miss.
C4_Witness ==
    /\ ReadAfterSet
    /\ lastGet.set[1].ttl[1] # 0
    /\ lastGet.t > lastGet.set[1].t0 + lastGet.set[1].ttl[1]
    /\ lastGet.value = Null

(***************************************************************************)
(* Claims about the ProductCatalogService                                  *)
(***************************************************************************)
\* The catalog a complete parse of the file gives.
ParsedFile == LoadLines(file, 2, << >>, << >>).products

\* C3: when several callers invoke loadCatalog / ensureLoaded before the first
\* load has completed, one execution parses the file, the product list is
\* populated once (no product appended twice) and every caller observes the
\* same completed catalog.
C3_SingleFlight ==
    /\ parseCount <= 1
    /\ loaded => (parseCount = 1 /\ products = ParsedFile)
    /\ ~loaded => products = << >>
    /\ Len(products) <= Len(file) - 1
    /\ \A c \in LoadCallers :
           observed[c].seen = "catalog" => observed[c].products = ParsedFile

\* C3 witness: two callers are suspended on their calls at once, the file has
\* been parsed once and holds several products.
C3_Witness ==
    /\ \A c \in LoadCallers : lpc[c] = "awaiting"
    /\ \E c, d \in LoadCallers :
           observed[c].op = "loadCatalog" /\ observed[d].op = "ensureLoaded"
    /\ parseCount = 1
    /\ Len(products) >= 2

\* The validateOrder call observed last returned a value.
Returned == outcome.called /\ ~outcome.threw

\* The products whose code equals the SKU of the last call, case apart.
SkuHits ==
    {i \in 1..Len(products) :
         ToLowerCase(products[i].product_code) = ToLowerCase(outcome.sku)}
Resolves == SkuHits # {}
\* The product the SKU resolves to: the first of them in the catalog.
Resolved == products[CHOOSE i \in SkuHits : \A j \in SkuHits : i <= j]

\* The quantity of the last call is a number above, or below, n.
QuantityAbove(n) == outcome.quantity # NaN /\ outcome.quantity[1] > n
QuantityBelow(n) == outcome.quantity # NaN /\ outcome.quantity[1] < n

IssueKinds == [i \in 1..Len(outcome.result.issues) |-> outcome.result.issues[i].kind]

\* C2 as stated: valid = true exactly when the SKU resolves to a product P
\* with P.stock > 0 and P.min_order_quantity <= quantity <= P.stock; then
\* issues is empty, and otherwise valid = false with at least one issue.
C2_AsStated ==
    Returned =>
        /\ outcome.result.valid <=>
               /\ Resolves
               /\ Resolved.available_in_stock > 0
               /\ outcome.quantity # NaN
               /\ Resolved.min_order_quantity <= outcome.quantity[1]
               /\ outcome.quantity[1] <= Resolved.available_in_stock
        /\ outcome.result.valid => outcome.result.issues = << >>
        /\ ~outcome.result.valid => Len(outcome.result.issues) >= 1

InsufficientStockIssue ==
    Issue("insufficient_stock", << >>, outcome.quantity, <<Resolved.available_in_stock>>)
ReduceSuggestion == Suggestion("reduce_to", << >>, <<Resolved.available_in_stock>>)
BelowMoqIssue ==
    Issue("below_moq", << >>, outcome.quantity, <<Resolved.min_order_quantity>>)
IncreaseSuggestion == Suggestion("increase_to", << >>, <<Resolved.min_order_quantity>>)

IssueRank(kind) ==
    CASE kind = "not_found" -> 1
      [] kind = "out_of_stock" -> 2
      [] kind = "insufficient_stock" -> 3
      [] kind = "below_moq" -> 4

\* C6: for a product that resolves and has stock > 0 the issues are exactly
\* the insufficient-stock issue if quantity > stock, then the below-MOQ issue
\* if quantity < MOQ, each with its suggestion; in every outcome the issues
\* come in the order not-found, out-of-stock, insufficient-stock, below-MOQ.
C6_IssueList ==
    Returned =>
        /\ (Resolves /\ Resolved.available_in_stock > 0) =>
             LET over == QuantityAbove(Resolved.available_in_stock)
                 under == QuantityBelow(Resolved.min_order_quantity)
             IN  /\ outcome.result.issues =
                        (IF over THEN <<InsufficientStockIssue>> ELSE << >>)
                        \o (IF under THEN <<BelowMoqIssue>> ELSE << >>)
                 /\ outcome.result.suggestions =
                        (IF over THEN <<ReduceSuggestion>> ELSE << >>)
                        \o (IF under THEN <<IncreaseSuggestion>> ELSE << >>)
        /\ \A i, j \in 1..Len(IssueKinds) :
               i < j => IssueRank(IssueKinds[i]) < IssueRank(IssueKinds[j])

\* C6 witness: stock < quantity < MOQ, both issues in that order.
C6_Witness ==
    /\ Returned /\ Resolves
    /\ Resolved.available_in_stock > 0
    /\ QuantityAbove(Resolved.available_in_stock)
    /\ QuantityBelow(Resolved.min_order_quantity)
    /\ IssueKinds = <<"insufficient_stock", "below_moq">>

\* The products whose code or name contains the SKU text, case apart.
TextMatches ==
    {i \in 1..Len(products) :
         \/ Includes(ToLowerCase(products[i].product_code), ToLowerCase(outcome.sku))
         \/ Includes(ToLowerCase(products[i].product_name), ToLowerCase(outcome.sku))}

\* C7: when the SKU matches no product of an available catalog the call
\* returns valid = false, no product, the one issue SKU-not-found and at most
\* one suggestion: the codes of the first at most 3 results of
\* getSuggestions(sku); there is none exactly when no code or name contains
\* the SKU text.
C7_NotFound ==
    (outcome.called /\ fileExists /\ ~Resolves) =>
        /\ ~outcome.threw
        /\ ~outcome.result.valid
        /\ outcome.result.product = << >>
        /\ outcome.result.issues = <<Issue("not_found", outcome.sku, NaN, << >>)>>
        /\ (outcome.result.suggestions = << >>) <=> (TextMatches = {})
        /\ outcome.result.suggestions # << >> =>
               outcome.result.suggestions =
                   <<Suggestion("did_you_mean",
                        ProductCodes(Slice(GetSuggestions(products, outcome.sku,
                                                          DefaultSuggestionLimit), 3)),
                        << >>)>>

\* C7 witness: more than 3 products match the text and 3 codes are listed.
C7_Witness ==
    /\ Returned /\ ~Resolves
    /\ Cardinality(TextMatches) > 3
    /\ Len(outcome.result.suggestions) = 1
    /\ Len(outcome.result.suggestions[1].codes) = 3

HasIssue(i) == \E k \in 1..Len(outcome.result.issues) : outcome.result.issues[k] = i
HasSuggestion(x) ==
    \E k \in 1..Len(outcome.result.suggestions) : outcome.result.suggestions[k] = x

\* C8 as stated: whenever the SKU resolves and quantity > stock, stock = 0
\* included, the outcome holds the insufficient-stock issue with the exact
\* numbers and the suggestion to reduce to the available quantity.
C8_AsStated ==
    (Returned /\ Resolves /\ QuantityAbove(Resolved.available_in_stock)) =>
        (HasIssue(InsufficientStockIssue) /\ HasSuggestion(ReduceSuggestion))

\* C8 amended: so it is when the stock is not 0; a product with stock 0 gets
\* the out-of-stock issue in its place, and no suggestion to reduce.
C8_InsufficientStock ==
    (Returned /\ Resolves) =>
        /\ (QuantityAbove(Resolved.available_in_stock)
                /\ Resolved.available_in_stock # 0) =>
               (HasIssue(InsufficientStockIssue) /\ HasSuggestion(ReduceSuggestion))
        /\ Resolved.available_in_stock = 0 =>
               /\ HasIssue(Issue("out_of_stock", outcome.sku, NaN, << >>))
               /\ ~HasIssue(InsufficientStockIssue)
               /\ ~HasSuggestion(ReduceSuggestion)

\* C8 witness: a quantity above a stock that is not 0.
C8_Witness ==
    /\ Returned /\ Resolves
    /\ Resolved.available_in_stock # 0
    /\ QuantityAbove(Resolved.available_in_stock)
    /\ HasIssue(InsufficientStockIssue)

\* The quantity of a request body is missing: absent, or not a number.
QuantityMissing(v) == v.type = "undefined" \/ ParseIntValue(v) = NaN

\* C9 as stated, for a catalog file that is there: a validation request whose
\* quantity is missing is rejected as a caller error before any catalog
\* access, at the route and in validateOrder; it never produces a validation
\* outcome.
C9_AsStated ==
    fileExists =>
        /\ (response.called /\ QuantityMissing(response.quantity)) =>
               (response.status = 400 /\ ~response.catalogRead)
        /\ (outcome.called /\ outcome.quantity = NaN) => ~Returned

(***************************************************************************)
(* Claims about the read operations of the ProductCatalogService           *)
(***************************************************************************)
\* The read operation observed last was op and it returned a value.
QueryReturned(op) == query.called /\ query.op = op /\ ~query.threw

\* No two products of the list have the same code.
UniqueCodes(list) ==
    \A i, j \in 1..Len(list) :
        list[i].product_code = list[j].product_code => i = j

\* The last product the lines of the file give for a code.
LastOccurrence(code) ==
    LET hits == {i \in 1..Len(ParsedFile) : ParsedFile[i].product_code = code}
    IN  ParsedFile[CHOOSE i \in hits : \A j \in hits : j <= i]

\* C11 as stated: when a code stands on more than one line of the file, the
\* loaded catalog holds one entry for it, the last occurrence; findBySKU
\* returns that last occurrence and getAllProducts never returns two products
\* with the same code.
C11_AsStated ==
    /\ loaded =>
          /\ UniqueCodes(products)
          /\ \A i \in 1..Len(products) :
                 products[i] = LastOccurrence(products[i].product_code)
    /\ (QueryReturned("findBySKU") /\ query.products # << >>) =>
          query.products[1] = LastOccurrence(query.products[1].product_code)
    /\ QueryReturned("getAllProducts") => UniqueCodes(query.products)

\* The products whose code equals the text of the last read, case apart.
CodeHits ==
    {i \in 1..Len(products) :
         ToLowerCase(products[i].product_code) = ToLowerCase(query.text)}

\* C12 as stated: for every product P of the loaded catalog and every text
\* equal to P's code up to letter case, findBySKU returns P; for a text that
\* equals no code up to case it returns null.
C12_AsStated ==
    QueryReturned("findBySKU") =>
        /\ \A i \in CodeHits : query.products = <<products[i]>>
        /\ CodeHits = {} => query.products = << >>

\* C13 as stated: searchProducts("") on any loaded catalog returns no
\* product and total 0.
C13_AsStated ==
    (QueryReturned("searchProducts") /\ query.text = << >>) =>
        (query.products = << >> /\ query.total = 0)

\* The scores of the rules that apply to a product and a query, in tenths.
RuleScores(p, q) ==
    {0}
    \cup (IF ToLowerCase(p.product_code) = ToLowerCase(q) THEN {10} ELSE {})
    \cup (IF Includes(ToLowerCase(p.product_code), ToLowerCase(q)) THEN {8} ELSE {})
    \cup (IF Includes(ToLowerCase(p.product_name), ToLowerCase(q)) THEN {6} ELSE {})
    \cup (IF Includes(ToLowerCase(p.description), ToLowerCase(q)) THEN {4} ELSE {})
HighestScore(p, q) == CHOOSE x \in RuleScores(p, q) : \A y \in RuleScores(p, q) : y <= x

\* The limit the last read ran with, given the default of its operation.
QueryLimit(default) == LimitOr(query.limit, default)

\* The products of the catalog the last read did not return.
Omitted == {i \in 1..Len(products) :
                \A k \in 1..Len(query.products) : query.products[k] # products[i]}

\* C14: the confidence searchProducts gives a returned product is the highest
\* score among the rules that apply (1.0 code equal, 0.8 code contains, 0.6
\* name contains, 0.4 description contains, case apart); a product scoring 0
\* is not returned, every returned confidence is 0.4, 0.6, 0.8 or 1.0, and a
\* product is left out of a list shorter than the limit only when it scores 0.
C14_Confidence ==
    QueryReturned("searchProducts") =>
        /\ Len(query.scores) = Len(query.products)
        /\ \A k \in 1..Len(query.products) :
               /\ query.scores[k] = HighestScore(query.products[k], query.text)
               /\ query.scores[k] \in {4, 6, 8, 10}
        /\ Len(query.products) < QueryLimit(DefaultSearchLimit) =>
               \A i \in Omitted : HighestScore(products[i], query.text) = 0

\* A search returned a product to which two rules apply next to a product
\* matched by a weaker rule, and left a product scoring 0 out.
C14_Witness ==
    /\ QueryReturned("searchProducts")
    /\ \E k \in 1..Len(query.products) :
           /\ query.scores[k] = 8
           /\ 6 \in RuleScores(query.products[k], query.text)
    /\ \E k \in 1..Len(query.products) : query.scores[k] = 6
    /\ \E i \in Omitted : HighestScore(products[i], query.text) = 0

\* The place of a returned product in the catalog.
CatalogIndex(p) == CHOOSE i \in 1..Len(products) : products[i] = p

\* The returned product k ranks before product i of the catalog: a higher
\* confidence, or the same confidence and an earlier place in the catalog.
RanksBefore(k, i) ==
    \/ query.scores[k] > CalculateMatchConfidence(products[i], query.text)
    \/ /\ query.scores[k] = CalculateMatchConfidence(products[i], query.text)
       /\ CatalogIndex(query.products[k]) < i

\* The products of the catalog the query matches.
Matching == {i \in 1..Len(products) :
                 CalculateMatchConfidence(products[i], query.text) > 0}

\* C15: the list searchProducts returns is sorted by non-increasing
\* confidence, products of equal confidence stand in catalog order, the list
\* holds at most limit products (20 when no limit is given) and it is the
\* first limit elements of the full ranked list of matches.
C15_RankedSlice ==
    QueryReturned("searchProducts") =>
        /\ \A j, k \in 1..Len(query.products) :
               j < k =>
                  /\ query.scores[j] >= query.scores[k]
                  /\ query.scores[j] = query.scores[k] =>
                         CatalogIndex(query.products[j]) < CatalogIndex(query.products[k])
        /\ Len(query.products) <= QueryLimit(DefaultSearchLimit)
        /\ Len(query.products) =
               Min(Cardinality(Matching), QueryLimit(DefaultSearchLimit))
        /\ \A k \in 1..Len(query.products) :
               \A i \in Omitted \cap Matching : RanksBefore(k, i)

\* A search cut by its limit returned first a product that stands later in
\* the catalog than a match of lower confidence.
C15_Witness ==
    /\ QueryReturned("searchProducts")
    /\ query.limit # << >>
    /\ Len(query.products) = query.limit[1]
    /\ Omitted \cap Matching # {}
    /\ \E i \in Matching : i < CatalogIndex(query.products[1])

\* C16 as stated: for every product P of the loaded catalog and any limit of
\* at least 1, searchProducts(P.code) returns P with confidence 1.0 at a
\* position before every result whose confidence is below 1.0.
C16_AsStated ==
    (QueryReturned("searchProducts") /\ QueryLimit(DefaultSearchLimit) >= 1) =>
        \A i \in 1..Len(products) :
            products[i].product_code = query.text =>
                \E k \in 1..Len(query.products) :
                    /\ query.products[k] = products[i]
                    /\ query.scores[k] = 10
                    /\ \A j \in 1..Len(query.products) :
                           query.scores[j] < 10 => k < j

\* The fragment of the last read stands in the code, or in the name, of p.
InCode(p) == Includes(ToLowerCase(p.product_code), ToLowerCase(query.text))
InName(p) == Includes(ToLowerCase(p.product_name), ToLowerCase(query.text))

\* C17: getSuggestions(fragment, limit) returns only products whose code or
\* name contains the fragment, case apart; every returned product whose code
\* contains it stands before every product matched by name only; inside each
\* of the two groups the products are in the order of their names; at most
\* limit products are returned (10 when no limit is given).
C17_Suggestions ==
    QueryReturned("getSuggestions") =>
        /\ \A k \in 1..Len(query.products) :
               InCode(query.products[k]) \/ InName(query.products[k])
        /\ \A j, k \in 1..Len(query.products) :
               j < k =>
                  /\ InCode(query.products[k]) => InCode(query.products[j])
                  /\ (InCode(query.products[j]) <=> InCode(query.products[k])) =>
                         LocaleCompare(query.products[j].product_name,
                                       query.products[k].product_name) <= 0
        /\ Len(query.products) <= QueryLimit(DefaultSuggestionLimit)

\* Suggestions came back with two products matched by code, in an order
\* other than the catalog's, before one matched by name only.
C17_Witness ==
    /\ QueryReturned("getSuggestions")
    /\ Len(query.products) = 3
    /\ InCode(query.products[1]) /\ InCode(query.products[2])
    /\ CatalogIndex(query.products[2]) < CatalogIndex(query.products[1])
    /\ ~InCode(query.products[3])

\* C18 as stated: while the catalog file is missing the loaded flag stays
\* false and no operation that depends on the catalog, the health report
\* included, returns a successful result.
C18_AsStated ==
    ~fileExists =>
        /\ ~loaded
        /\ query.called => query.threw

\* The fields of a line hold a product: six fields at least, with a number
\* for the price, the stock and the minimum order quantity.
WellFormed(values) ==
    /\ Len(values) >= 6
    /\ ParseInt(values[3]) # NaN
    /\ ParseInt(values[4]) # NaN
    /\ ParseInt(values[5]) # NaN

\* The data lines of the file that hold a product, in the order of the file.
WellFormedLines ==
    SelectSeq(Tail(file), LAMBDA line : Trim(line) # << >>
                                        /\ WellFormed(ParseCSVLine(Trim(line))))

\* C19 as stated: a record with fewer than six fields, or with a price, stock
\* or minimum order quantity that is no number, adds no product; the load goes
\* on with the following lines and succeeds.
C19_AsStated ==
    /\ loaded =>
          products = [i \in 1..Len(WellFormedLines) |->
                         ParseProduct(ParseCSVLine(Trim(WellFormedLines[i])))]
    /\ (query.called /\ fileExists /\ query.op \in {"getAllProducts", "findBySKU"}) =>
          ~query.threw

\* C20: once a loadCatalog has succeeded, every further loadCatalog or
\* ensureLoaded is a no-op: the loaded flag goes from false to true once and
\* never back, and the product list and the category table stay as they are;
\* the file is parsed only by the call that sets the flag.
C20_LoadOnce ==
    [][/\ loaded => /\ loaded'
                    /\ products' = products
                    /\ categories' = categories
                    /\ parseCount' = parseCount
       /\ parseCount' # parseCount => (~loaded /\ loaded' /\ parseCount' = 1)]_vars

\* A caller has read the loaded catalog and another call, made after the
\* load, is waiting to resume.
C20_Witness ==
    \E c, d \in LoadCallers :
        /\ c # d
        /\ lpc[d] = "idle" /\ observed[d].seen = "catalog"
        /\ lpc[c] = "awaiting" /\ observed[c].seen = "nothing"
        /\ loaded /\ parseCount = 1
        /\ Len(products) >= 2 /\ Len(categories) >= 2

(***************************************************************************)
(* Claims about getOrSet, set, the sweep, the counters and shutdown        *)
(***************************************************************************)
\* Key k has a live entry: one stored and not yet expired.
LiveEntry(k) == k \in DOMAIN cache /\ ~Expired(cache[k], now)

\* The TTL the claims promise for an optional ttl: the one given, else the default.
PromisedTTL(ttl) == IF ttl = << >> THEN DefaultTTLMs ELSE ttl[1]

\* A getOrSet call that finds a live entry returns its value and invokes no
\* factory; one that finds none invokes the factory.
GetOrSetHitOrMiss ==
    \A c \in GetOrSetCallers, k \in Keys, ttl \in GetOrSetTtlArgs :
        getOrSetStart(c, k, ttl) =>
            IF LiveEntry(k)
            THEN /\ pending'[c].pc = "idle"
                 /\ pending'[c].ret = <<cache[k].value>>
            ELSE pending'[c].pc = "factory"

\* The factory's result is stored under the key with the given or default TTL
\* and returned.
GetOrSetStores ==
    \A c \in GetOrSetCallers, v \in FactoryResults :
        getOrSetResolve(c, v) =>
            /\ pending'[c].pc = "idle"
            /\ pending'[c].ret = <<v>>
            /\ pending[c].key \in DOMAIN cache'
            /\ cache'[pending[c].key].value = v
            /\ cache'[pending[c].key].expiry = now + PromisedTTL(pending[c].ttl)

\* C21 as stated: getOrSet returns the cached value without invoking the
\* factory whenever a live entry exists for the key, whatever the stored value
\* is; otherwise it invokes the factory once, stores the result under the key
\* with the given or default TTL and returns it.
C21_AsStated == [][GetOrSetHitOrMiss /\ GetOrSetStores]_vars

\* What set(k, v, ttl) leaves behind when the entry is to live for `life`: one
\* entry for k with value v and expiry now + life, whatever was there before,
\* every other key as it was, and one key more only if k was absent; a get
\* made at once returns v.
SetReplaces(k, v, life) ==
    /\ k \in DOMAIN cache'
    /\ cache'[k].value = v
    /\ cache'[k].expiry = now + life
    /\ DOMAIN cache' = DOMAIN cache \cup {k}
    /\ \A j \in DOMAIN cache \ {k} : cache'[j] = cache[j]
    /\ stats'.size = stats.size + (IF k \in DOMAIN cache THEN 0 ELSE 1)
    /\ CacheGetResult(cache', stats', k, now).value = v

\* C22 as stated: set(k, v, ttl) replaces any entry of k; afterwards get(k)
\* returns v, the expiry is the time of the set plus ttl when a ttl is given
\* and plus the default otherwise, and the number of keys grows by one only
\* if k was absent.
C22_AsStated ==
    [][\A k \in Keys, v \in Values, ttl \in TtlArgs :
          CacheSet(k, v, ttl) => SetReplaces(k, v, PromisedTTL(ttl))]_vars

\* C22 amended: the same, the expiry being the time of the set plus ttl when a
\* ttl other than 0 is given, and plus the default when ttl is omitted or 0.
C22_SetReplaces ==
    [][\A k \in Keys, v \in Values, ttl \in TtlArgs :
          CacheSet(k, v, ttl) =>
              SetReplaces(k, v, IF ttl = << >> \/ ttl = <<0>>
                                THEN DefaultTTLMs ELSE ttl[1])]_vars

\* C22 witness: two calls have been made, both sets of k1; the second, made
\* later with ttl 100, has replaced the entry of the first.
C22_Witness ==
    /\ cacheOps = 2
    /\ stats.sets = 2
    /\ stats.size = 1
    /\ "k1" \in DOMAIN cache
    /\ cache["k1"].created > 0
    /\ cache["k1"].expiry = cache["k1"].created + 100

\* A sweep is due when it runs, the next one is due 60 seconds after it, and
\* it removes exactly the entries whose expiry has passed: every live entry
\* stays, with its value and expiry unchanged.
SweepRemovesExpiredOnly ==
    CacheCleanup =>
        /\ now >= nextSweep
        /\ nextSweep' = nextSweep + 60000
        /\ DOMAIN cache' = {k \in DOMAIN cache : ~(now > cache[k].expiry)}
        /\ \A k \in DOMAIN cache' : cache'[k] = cache[k]

\* The sweep ticks the clock of the model reaches.
SweepTimes == {60000 * p : p \in CachePhases \ {0}}

\* An entry of k that expires before the sweep due at s is eventually gone:
\* removed, or replaced by an entry that outlives that sweep.
SweptBy(k, s) ==
    (nextSweep = s /\ k \in DOMAIN cache /\ cache[k].expiry < s)
        ~> (k \notin DOMAIN cache \/ cache[k].expiry >= s)

\* C23: an entry that is never read again is eventually removed by the
\* periodic sweep once its expiry has passed, at the first sweep tick after
\* the expiry, the ticks being 60 seconds apart; a sweep removes only entries
\* whose expiry has passed and leaves every live entry and its value unchanged.
C23_Sweep ==
    /\ [][SweepRemovesExpiredOnly]_vars
    /\ \A k \in Keys, s \in SweepTimes : SweptBy(k, s)

\* C23 witness: the first sweep has run and has removed the one entry ever
\* stored, which no get had found expired.
C23_Witness ==
    /\ nextSweep = 2 * 60000
    /\ stats.sets = 1
    /\ stats.deletes = 1
    /\ stats.misses = 0
    /\ cache = << >>

\* C24: across any sequence of set, get, has, delete, clear, getOrSet,
\* periodic cleanup and destroy, the counters hits, misses, sets and deletes
\* never decrease; only size may decrease.
C24_Monotone ==
    [][/\ stats'.hits >= stats.hits
       /\ stats'.misses >= stats.misses
       /\ stats'.sets >= stats.sets
       /\ stats'.deletes >= stats.deletes]_vars

\* C24 witness: after a set and a hit, destroy has taken size back to 0 and
\* the counters stand.
C24_Witness ==
    /\ nextSweep = 0
    /\ stats.size = 0
    /\ stats.sets >= 1
    /\ stats.hits >= 1

\* C25 as stated: the SIGTERM / SIGINT shutdown path calls destroy on every
\* CacheService of the engine, so that once the process has shut down the
\* sweep is stopped and the store is empty.
C25_AsStated == proc = "exited" => (nextSweep = 0 /\ cache = << >>)

(***************************************************************************)
(* Claims about waitForSlot, the introspection and the identities          *)
(***************************************************************************)
\* The timestamps of a history that lie inside the window ending at t.
TimestampsInWindow(h, t) ==
    {h[i].timestamp : i \in {j \in 1..Len(h) : h[j].timestamp > t - WindowMs}}

\* The least element of a non-empty set of times.
Oldest(S) == CHOOSE x \in S : \A y \in S : x <= y

\* A waitForSlot call returns only from a check that checkLimit has granted,
\* and that check has recorded one timestamp, the time of the grant, after
\* the timestamps of the identity still inside the window.
ReturnsOnGrant(w) ==
    (wpc[w] # "idle" /\ wpc'[w] = "idle") =>
        LET id == wid[w]
            log == calls'[id]
        IN  /\ wpc[w] = "check"
            /\ Len(log) = Len(calls[id]) + 1
            /\ log[Len(log)].ok
            /\ log[Len(log)].t = now
            /\ Len(GetHistory(requests', id)) =
                   Cardinality({i \in 1..Len(GetHistory(requests, id)) :
                       GetHistory(requests, id)[i].timestamp > now - WindowMs}) + 1
            /\ GetHistory(requests', id)[Len(GetHistory(requests', id))].timestamp = now

Timestamps(h) == {h[i].timestamp : i \in 1..Len(h)}

\* The sleep that starts in a step of waitForSlot lasts
\* min(max(0, oldest + windowMs - now), 1000), oldest being the least of the
\* times S, whenever S is not empty.
SleepsUntilOldestLeaves(w, S) ==
    S # {} => wake'[w] - now = Min(Max(0, Oldest(S) + WindowMs - now), 1000)

\* No checkLimit call for id after the first `seen` of the log was granted.
NoGrantSince(id, seen) ==
    \A i \in (seen + 1)..Len(calls[id]) : ~calls[id][i].ok

\* The check made after a sleep whose remaining wait was at most 1 second is
\* granted if no other caller took the slot in the meantime.
GrantedAfterSleep(w) ==
    (/\ waitForSlotCheck(w)
     /\ slept[w] # << >>
     /\ slept[w][1].left <= 1000
     /\ NoGrantSince(wid[w], slept[w][1].seen)) => wpc'[w] = "idle"

\* C27 as stated: each sleep of waitForSlot between two checks lasts
\* min(max(0, oldest + windowMs - now), 1000) ms, oldest being the oldest
\* in-window timestamp of the identity; it never exceeds 1 second, and when
\* the remaining wait is at most 1 second the check made after the sleep is
\* granted if no other caller took the slot.
C27_AsStated ==
    [][\A w \in Waiters :
          /\ waitForSlotSleep(w) =>
                /\ SleepsUntilOldestLeaves(w,
                       TimestampsInWindow(GetHistory(requests, wid[w]), now))
                /\ wake'[w] - now <= 1000
          /\ GrantedAfterSleep(w)]_vars

\* C27 amended: the same, oldest being the oldest timestamp stored for the
\* identity, inside the window or not; with no timestamp stored the sleep
\* lasts 1 second.
C27_Sleep ==
    [][\A w \in Waiters :
          /\ waitForSlotSleep(w) =>
                /\ SleepsUntilOldestLeaves(w,
                       Timestamps(GetHistory(requests, wid[w])))
                /\ GetHistory(requests, wid[w]) = << >> => wake'[w] - now = 1000
                /\ wake'[w] - now <= 1000
          /\ GrantedAfterSleep(w)]_vars

\* C27 witness: a waitForSlot call has returned from the check it made after
\* sleeping for its remaining wait, which was at most 1 second.
C27_Witness ==
    \E w \in Waiters :
        /\ wpc[w] = "idle"
        /\ slept[w] # << >>
        /\ slept[w][1].left > 0
        /\ slept[w][1].left <= 1000

\* A read of the remaining count leaves every history as it is and returns
\* max(0, maxRequests - the number of timestamps of id inside the window).
RemainingIsReadOnly(id) ==
    getRemainingRequests(id) =>
        /\ requests' = requests
        /\ probe'.value =
              LET h == GetHistory(requests, id)
                  inside == {i \in 1..Len(h) : h[i].timestamp > now - WindowMs}
              IN  Max(0, MaxRequests - Cardinality(inside))

\* A read of the reset time leaves every history as it is and returns the
\* oldest of the times S plus windowMs, 0 when there is none.
ResetTimeIsReadOnly(id, S) ==
    getResetTime(id) =>
        /\ requests' = requests
        /\ probe'.value = IF S = {} THEN 0 ELSE Oldest(S) + WindowMs

\* C28 as stated: getRemainingRequests(id) and getResetTime(id) never change
\* the stored history of any identity; getRemainingRequests returns
\* max(0, maxRequests - number of in-window timestamps of id) and getResetTime
\* returns the oldest in-window timestamp of id plus windowMs, 0 when there
\* is none.
C28_AsStated ==
    [][\A id \in Identifiers :
          /\ RemainingIsReadOnly(id)
          /\ ResetTimeIsReadOnly(id,
                 TimestampsInWindow(GetHistory(requests, id), now))]_vars

\* The number of timestamps of identity b inside the window ending at t.
CountInWindow(reqs, b, t) ==
    LET h == GetHistory(reqs, b)
    IN  Cardinality({i \in 1..Len(h) : h[i].timestamp > t - WindowMs})

\* The step leaves every identity other than a as it was: its recorded
\* history, its remaining count and the decision a check would get.
OthersUntouched(a) ==
    \A b \in Identifiers \ {a} :
        /\ (b \in DOMAIN requests') = (b \in DOMAIN requests)
        /\ GetHistory(requests', b) = GetHistory(requests, b)
        /\ calls'[b] = calls[b]
        /\ Max(0, MaxRequests - CountInWindow(requests', b, now')) =
               Max(0, MaxRequests - CountInWindow(requests, b, now))
        /\ (CountInWindow(requests', b, now') < MaxRequests) =
               (CountInWindow(requests, b, now) < MaxRequests)

\* The step is one of checkLimit(a), or of a waitForSlot(a) call.
StepFor(a) ==
    \/ checkLimit(a)
    \/ \E w \in Waiters : waitForSlotEnter(w, a)
    \/ \E w \in Waiters :
          /\ wid[w] = a
          /\ waitForSlotCheck(w) \/ waitForSlotSleep(w) \/ waitForSlotWake(w)

\* C29: rate-limit state is independent per identity: checkLimit(a) and
\* waitForSlot(a) never change the recorded history, the remaining count or
\* the grant decision of any other identity b, and a call without an
\* identity uses the single identity 'default'.
C29_Independent ==
    [][/\ \A a \in Identifiers : StepFor(a) => OthersUntouched(a)
       /\ checkLimit(IdentifierOr(<< >>)) =>
             (calls'["default"] # calls["default"] /\ OthersUntouched("default"))
       /\ \A w \in Waiters :
             waitForSlotEnter(w, IdentifierOr(<< >>)) => wid'[w] = "default"]_vars

\* C29 witness: one identity has just been denied while another, asked no
\* earlier, has been granted.
C29_Witness ==
    \E a \in Identifiers, b \in Identifiers :
        /\ a # b
        /\ calls[a] # << >>
        /\ calls[b] # << >>
        /\ ~calls[a][Len(calls[a])].ok
        /\ calls[b][Len(calls[b])].ok
        /\ calls[b][Len(calls[b])].t >= calls[a][Len(calls[a])].t

(***************************************************************************)
(* Claims about the values the catalog hands out                           *)
(***************************************************************************)
\* C30 as stated: nothing a caller does to the value returned by
\* getAllProducts (adding, removing or reordering elements, or changing a
\* field of a returned product) changes the catalog that later findBySKU and
\* getAllProducts calls observe: the catalog stays the one parsed from the
\* file, and so does every product those calls return.
C30_AsStated ==
    loaded =>
        /\ products = ParsedFile
        /\ (query.called /\ ~query.threw /\ query.op \in {"findBySKU", "getAllProducts"}) =>
               \A i \in 1..Len(query.products) :
                   \E j \in 1..Len(ParsedFile) : query.products[i] = ParsedFile[j]

(***************************************************************************)
(* C38: the stored histories are bounded and ordered                       *)
(***************************************************************************)
\* The timestamps of a history never decrease from one record to the next.
InGrantOrder(h) ==
    \A i \in 1..Len(h) - 1 : h[i].timestamp <= h[i + 1].timestamp

\* C38: in every reachable state of the limiter the history stored for each
\* identity holds at most maxRequests records, its timestamps are in
\* non-decreasing order and its first record is the oldest one; however many
\* calls an identity makes, its stored history never grows beyond maxRequests.
C38_BoundedHistory ==
    \A id \in DOMAIN requests :
        LET h == requests[id]
        IN  /\ Len(h) <= MaxRequests
            /\ InGrantOrder(h)
            /\ Len(h) > 0 => h[1].timestamp = Oldest(Timestamps(h))

\* One identity has called more often than maxRequests, over more than one
\* window, and its history is full, with records of different times.
C38_Witness ==
    \E id \in DOMAIN requests :
        /\ Len(calls[id]) > MaxRequests + 1
        /\ Len(requests[id]) = MaxRequests
        /\ requests[id][1].timestamp < requests[id][MaxRequests].timestamp
        /\ \E i \in 1..Len(calls[id]) : ~calls[id][i].ok
        /\ requests[id][1].timestamp > 0

(***************************************************************************)
(* C39: cleanup() changes no answer of the limiter                         *)
(***************************************************************************)
\* The time of the cleanup and the times a following call may come at.
FollowingTimes == {now + k * d : k \in 0..3, d \in TickSteps}

\* What checkLimit(id) answers at time t on the map reqs, and the in-window
\* records it leaves for id.
Admission(reqs, id, t) ==
    LET r == CheckLimitResult(reqs, id, t)
    IN  [ok |-> r.ok, inWindow |-> FilterWindow(GetHistory(r.requests, id), t)]

\* A step of cleanup() at time now keeps, for each identity, exactly the
\* records inside the window, in their order, and drops the identity when no
\* record is left.
RemovesOnlyOutsideWindow ==
    /\ \A id \in DOMAIN requests' :
          /\ id \in DOMAIN requests
          /\ Len(requests'[id]) > 0
    /\ \A id \in DOMAIN requests :
          /\ GetHistory(requests', id) =
                 SelectSeq(requests[id], LAMBDA req : req.timestamp > now - WindowMs)
          /\ id \notin DOMAIN requests' <=>
                 \A i \in 1..Len(requests[id]) :
                     requests[id][i].timestamp <= now - WindowMs

\* C39: cleanup() is neutral for admission.  For every identity and at the
\* time of the cleanup or any later time, checkLimit(id) gives the same
\* answer and getRemainingRequests(id) the same count on the map cleanup()
\* leaves as on the map it found; cleanup() removes only records outside the
\* current window and deletes an identity only when none of its records is
\* inside the window.
C39_CleanupNeutral ==
    [][cleanup =>
          /\ RemovesOnlyOutsideWindow
          /\ \A id \in Identifiers, t \in FollowingTimes :
                /\ Admission(requests', id, t) = Admission(requests, id, t)
                /\ GetRemainingRequests(requests', id, t) =
                       GetRemainingRequests(requests, id, t)]_vars

\* cleanup() has run: an identity that was granted a slot is gone from the
\* map, which only cleanup() does, while another identity is stored with a
\* full history inside the window, so that a check for it is denied.
C39_Witness ==
    \E a \in Identifiers, b \in DOMAIN requests :
        /\ a \notin DOMAIN requests
        /\ \E i \in 1..Len(calls[a]) : calls[a][i].ok
        /\ Len(FilterWindow(requests[b], now)) = MaxRequests
        /\ ~CheckLimitResult(requests, b, now).ok

(***************************************************************************)
(* C40: the size counter                                                   *)
(***************************************************************************)
\* C40: after every operation of the cache (set, get, has, delete, clear,
\* getOrSet, cleanup, destroy) stats.size equals the number of keys stored,
\* and size <= sets - deletes in every reachable state.
C40_SizeIsKeys ==
    /\ stats.size = Cardinality(DOMAIN cache)
    /\ stats.size <= stats.sets - stats.deletes

\* One key is stored after two sets, one of them made by getOrSet, and one
\* removal.
C40_Witness ==
    /\ stats.size = 1
    /\ stats.sets = 2
    /\ stats.deletes = 1
    /\ \E c \in GetOrSetCallers : pending[c].ret # << >> /\ pending[c].key \in DOMAIN cache

(***************************************************************************)
(* C37: overlapping getOrSet calls                                         *)
(***************************************************************************)
\* Every entry in the map is the whole entry of the last set for its key.
WholeEntries ==
    \A k \in DOMAIN cache :
        /\ k \in DOMAIN written
        /\ cache[k] = NewEntry(written[k].value, written[k].ttl, written[k].t0)

\* A getOrSet call that finds its key absent counts one miss, stores nothing
\* and runs its factory; one that finds a live entry returns the value of
\* the last set for the key.
StartsOnAbsentKey(c, k, ttl) ==
    getOrSetStart(c, k, ttl) =>
        /\ k \notin DOMAIN cache =>
              /\ pending'[c].pc = "factory"
              /\ stats' = [stats EXCEPT !.misses = @ + 1]
              /\ cache' = cache
        /\ pending'[c].ret # << >> =>
              /\ k \in DOMAIN cache
              /\ pending'[c].ret = <<written[k].value>>
        /\ \A d \in OverlappingCallers \ {c} : pending'[d] = pending[d]

\* A getOrSet call whose factory completes with v returns v and counts one
\* set, and v is what the map holds for the key from then on, whatever
\* another call stored for it meanwhile.
CompletesWithOwnValue(c, v) ==
    getOrSetResolve(c, v) =>
        /\ pending'[c].ret = <<v>>
        /\ pending[c].key \in DOMAIN cache'
        /\ cache'[pending[c].key] = NewEntry(v, pending[c].ttl, now)
        /\ stats'.sets = stats.sets + 1
        /\ stats'.misses = stats.misses /\ stats'.hits = stats.hits
        /\ stats'.deletes = stats.deletes
        /\ \A k \in DOMAIN cache \ {pending[c].key} :
              k \in DOMAIN cache' /\ cache'[k] = cache[k]
        /\ \A d \in OverlappingCallers \ {c} : pending'[d] = pending[d]

\* C37: when getOrSet calls for the same absent key overlap while their
\* factories run, each call returns the value of its own factory, the entry
\* stored in the end is the value of the factory that completed last, each
\* call counts one miss and one set, and no call sees a partly written entry.
C37_Overlap ==
    /\ []WholeEntries
    /\ [][/\ \A c \in OverlappingCallers, k \in Keys, ttl \in GetOrSetTtlArgs :
               StartsOnAbsentKey(c, k, ttl)
          /\ \A c \in OverlappingCallers, v \in Values :
               CompletesWithOwnValue(c, v)]_vars

\* Two calls for the same absent key have overlapped: both missed, both
\* stored, each returned its own value, and the map holds the value of the
\* second one to complete, which is what a reader then gets.
C37_Witness ==
    /\ pending["g1"].pc = "idle" /\ pending["g2"].pc = "idle"
    /\ pending["g1"].key = pending["g2"].key
    /\ pending["g1"].ret = <<"v1">>
    /\ pending["g2"].ret = <<"v2">>
    /\ stats.misses = 2 /\ stats.sets = 2
    /\ stats.hits = 1 /\ stats.deletes = 0
    /\ lastGet.called /\ lastGet.key = pending["g1"].key
    /\ lastGet.value = "v2"
    /\ cache[lastGet.key].value = "v2"

(***************************************************************************)
(* C31: validateOrder is idempotent                                        *)
(***************************************************************************)
\* A validateOrder call with the arguments of an outcome the caller has kept
\* returns that very outcome: the same valid flag, product, issues and
\* suggestions, in the same order.
RepeatsOutcome(sku, quantity) ==
    validateOrder(sku, quantity) =>
        \A i \in 1..Len(remembered) :
            (remembered[i].sku = sku /\ remembered[i].quantity = quantity)
                => outcome' = remembered[i]

\* C31: two validateOrder calls with the same SKU and quantity on an
\* unchanged catalog return identical outcomes, whatever other validate,
\* search or suggestion calls happen in between.
C31_Idempotent ==
    [][\A sku \in ServiceSkus, quantity \in ServiceQuantities :
           RepeatsOutcome(sku, quantity)]_vars

\* A call has been repeated after a validateOrder call for another SKU and
\* a suggestion call: the caller has kept the outcomes of the first two
\* calls, and the third call has returned the first outcome again, with an
\* issue and a suggestion in it.
C31_Witness ==
    /\ Len(remembered) = 2
    /\ remembered[1].sku # remembered[2].sku
    /\ outcome = remembered[1]
    /\ ~outcome.threw
    /\ Len(outcome.result.issues) > 0
    /\ Len(outcome.result.suggestions) > 0
    /\ query.called /\ query.op = "getSuggestions"

(***************************************************************************)
(* C34: the operations of the service leave the catalog alone              *)
(***************************************************************************)
\* C34: once loadCatalog has completed, no operation of the service
\* (searchProducts, findBySKU, getByCategory, getSuggestions, validateOrder,
\* getCategories, getAllProducts, getStats) changes the product list, the
\* order of its elements, a field of a product or the category table.
C34_ReadOnly ==
    [][loaded => /\ loaded'
                 /\ products' = products
                 /\ categories' = categories
                 /\ parseCount' = parseCount]_vars

\* After a validateOrder call, a getByCategory call that stored its list and
\* a getSuggestions call that sorted two matches, the catalog still is what
\* the load parsed from the file, in the order of the file.
C34_Witness ==
    /\ loaded
    /\ Len(products) = 2
    /\ products = ParsedFile
    /\ categories = LoadLines(file, 2, << >>, << >>).categories
    /\ outcome.called /\ ~outcome.threw
    /\ stats.sets > 0
    /\ query.op = "getSuggestions"
    /\ Len(query.products) = 2
    /\ query.products # products

(***************************************************************************)
(* C35: the category table                                                 *)
(***************************************************************************)
\* The codes of the fixed table.
TableCodes ==
    { <<"D", "S", "K">>, <<"C", "H", "R">>, <<"D", "T", "B">>, <<"D", "C", "H">>,
      <<"B", "S", "F">>, <<"S", "F", "A">>, <<"C", "F", "T">>, <<"T", "V", "S">> }

\* The category table holds one entry for each category code among the
\* products, the category of the first product that has the code, in the
\* order in which the codes were first seen.
OnePerCode ==
    /\ \A i, j \in 1..Len(categories) :
          categories[i].code = categories[j].code => i = j
    /\ {categories[i].code : i \in 1..Len(categories)} =
           {products[i].category.code : i \in 1..Len(products)}
    /\ \A i \in 1..Len(categories) :
          \E j \in 1..Len(products) :
              /\ products[j].category = categories[i]
              /\ \A k \in 1..(j - 1) :
                    products[k].category.code # categories[i].code

\* Each product's category code is the part of its product code before the
\* first '-'.
CodeBeforeDash ==
    \A i \in 1..Len(products) :
        products[i].category.code = BeforeDash(products[i].product_code)

\* C35: at every point during and after loadCatalog the category table holds
\* exactly one entry for each distinct category code among the products
\* loaded so far, the first one seen; each product's category code is the
\* part of its product code before the first '-', and its category name is
\* the fixed table's name for that code, or 'Unknown' when the code is not
\* in the table.
C35_AsStated ==
    /\ OnePerCode
    /\ CodeBeforeDash
    /\ \A i \in 1..Len(products) :
          LET c == products[i].category
          IN  IF c.code \in TableCodes
              THEN c.name = GetCategoryName(c.code) /\ c.name # "Unknown"
              ELSE c.name = "Unknown"

\* The same statement with the name the lookup gives for every code.
C35_Lookup ==
    /\ OnePerCode
    /\ CodeBeforeDash
    /\ \A i \in 1..Len(products) :
          products[i].category.name = GetCategoryName(products[i].category.code)

(***************************************************************************)
(* C33: a caller of waitForSlot that gives up                              *)
(***************************************************************************)
\* The next step the loop takes for a caller that has given up releases it,
\* and records no timestamp.
ReleasedAtOnce(w) ==
    (cancelled[w] /\ wpc'[w] # wpc[w]) =>
        /\ wpc'[w] = "idle"
        /\ requests' = requests

\* C33: a caller of waitForSlot that is cancelled or times out while waiting
\* is released within one sleep quantum, at most 1 second: the retry loop
\* checks for cancellation between sleeps, and a released caller records no
\* timestamp.
C33_AsStated == [][\A w \in Waiters : ReleasedAtOnce(w)]_vars

\* What the loop does for such a caller: it goes on as for any other caller,
\* to the next check, the next sleep, or a grant that records a timestamp.
C33_Ignored ==
    [][\A w \in Waiters :
          (cancelled[w] /\ wpc'[w] # wpc[w]) =>
              \/ waitForSlotCheck(w)
              \/ waitForSlotSleep(w)
              \/ waitForSlotWake(w)]_vars

\* A caller that gave up while it slept has been granted a slot after all:
\* its identity's history holds a timestamp for a call nobody waits for.
C33_SlotTaken ==
    \E w \in Waiters :
        /\ cancelled[w]
        /\ wpc[w] = "idle"
        /\ slept[w] # << >>
        /\ \E i \in 1..Len(calls["default"]) :
              calls["default"][i].ok /\ calls["default"][i].t > 1000

(***************************************************************************)
(* C32: calls to the external model are gated by the limiter               *)
(***************************************************************************)
\* The grants checkLimit has made to the default identity, the one
\* generateContent waits under.
SlotGrants ==
    {i \in 1..Len(calls["default"]) : calls["default"][i].ok}

\* The requests whose waitForSlot has returned and whose call to the model
\* is the next thing generateContent does.
HoldingSlot == {w \in Waiters : epc[w] = "waiting" /\ wpc[w] = "idle"}

\* Every call made to the model has a grant of its own: a call is made at
\* the time of a grant, and the grants are the calls made plus the requests
\* about to make theirs.
EachCallHasItsSlot ==
    /\ Cardinality(SlotGrants) = Len(extCalls) + Cardinality(HoldingSlot)
    /\ \A i \in 1..Len(extCalls) :
          Cardinality({j \in 1..Len(extCalls) : extCalls[j] = extCalls[i]}) <=
              Cardinality({j \in SlotGrants : calls["default"][j].t = extCalls[i]})

\* The calls to the model started in the window (t - windowMs, t].
StartedIn(t) ==
    {i \in 1..Len(extCalls) : extCalls[i] > t - WindowMs /\ extCalls[i] <= t}

\* At most maxRequests calls are started in any window; the windows that
\* end at the time of a call hold every other window's calls.
StartsBounded ==
    \A i \in 1..Len(extCalls) : Cardinality(StartedIn(extCalls[i])) <= MaxRequests

\* A request answered from the cache leaves the limiter and the log of calls
\* as they are, and is over; a call is made only by a request that holds a
\* slot.
CachedTakesNoSlot ==
    /\ \A w \in Waiters :
          (eret'[w] # eret[w] /\ eret'[w].cached) =>
              /\ requests' = requests
              /\ calls' = calls
              /\ extCalls' = extCalls
              /\ wpc' = wpc
              /\ epc'[w] = "idle"
    /\ extCalls' # extCalls =>
          \E w \in HoldingSlot : epc'[w] = "calling" /\ extCalls' = Append(extCalls, now)

NoFallbackStored ==
    \A k \in DOMAIN cache : cache[k].value.kind # "fallback"

\* C36: processEmail returns a cached result only for an email whose content
\* is identical to the content that produced the result, within the TTL:
\* two emails of different content never share a cache entry, and a fallback
\* result produced after a failed model call is never stored.
C36_AsStated ==
    /\ NoFallbackStored
    /\ \A w \in Waiters :
          eret[w].cached => /\ eret[w].content = ereq[w]
                            /\ eret[w].kind = "ai"

\* What holds of the key the code builds: a cached result is returned only
\* for an email with the same first sixteen base64 characters as the email
\* that produced it, and no fallback result is stored.
C36_SameKey ==
    /\ NoFallbackStored
    /\ \A w \in Waiters :
          eret[w].cached =>
              /\ GenerateCacheKey(eret[w].content) = GenerateCacheKey(ereq[w])
              /\ eret[w].kind = "ai"

====
